---------------------------- MODULE Spec2Model ----------------------------
(***************************************************************************)
(* IdeaForge backend generation pipeline (src/server): the POST            *)
(* /api/generate handler and the pipeline stages it calls - validation and *)
(* normalisation, context building, dual-model AI orchestration,           *)
(* feasibility simulation, ethical safeguards, response formatting, the    *)
(* fallback provider - and the in-memory stores.                           *)
(*                                                                         *)
(* Conventions.                                                            *)
(*  - A string that the code searches by substring or measures by length   *)
(*    is a sequence of one-character strings.                              *)
(*  - A feasibility score value is carried in half points (2 x the JSON    *)
(*    number), so that a fractional model output such as 55.5 is           *)
(*    representable and Math.round is visible.                             *)
(*  - `origin` on an output object is provenance only: it records whether  *)
(*    the object was parsed from a model response or is a fallback         *)
(*    template; no operation reads it.                                     *)
(***************************************************************************)
EXTENDS Integers, Sequences, FiniteSets, TLC

(***************************************************************************)
(* String helpers (JavaScript String.prototype)                            *)
(***************************************************************************)

\* String.prototype.includes
Includes(s, k) ==
    \/ k = <<>>
    \/ \E i \in 0..(Len(s) - Len(k)) : s[i + 1] = k[1] /\ SubSeq(s, i + 1, i + Len(k)) = k

UpperChars ==
    <<"A","B","C","D","E","F","G","H","I","J","K","L","M","N","O","P","Q","R","S","T","U","V","W","X","Y","Z">>

LowerChars ==
    <<"a","b","c","d","e","f","g","h","i","j","k","l","m","n","o","p","q","r","s","t","u","v","w","x","y","z">>

LowerOf ==
    [c \in {UpperChars[i] : i \in 1..Len(UpperChars)} |->
        LowerChars[CHOOSE i \in 1..Len(UpperChars) : UpperChars[i] = c]]

LowerChar(c) == IF c \in DOMAIN LowerOf THEN LowerOf[c] ELSE c

\* String.prototype.toLowerCase
ToLowerCase(s) == [i \in 1..Len(s) |-> LowerChar(s[i])]

\* the characters the regular expression class \s matches
IsWhitespace(c) == c \in {" ", "\t", "\n"}

\* the characters of s at the positions that satisfy Kept, in order
KeepChars(s, Kept(_)) ==
    LET positions == SelectSeq([i \in 1..Len(s) |-> i], Kept)
    IN  [k \in 1..Len(positions) |-> s[positions[k]]]

\* value.replace(/\s+/g, " "): of every run of whitespace the first character
\* stays, as a space
CollapseWhitespace(s) ==
    LET kept(i) == ~IsWhitespace(s[i]) \/ i = 1 \/ ~IsWhitespace(s[i - 1])
        spaced == [i \in 1..Len(s) |-> IF IsWhitespace(s[i]) THEN " " ELSE s[i]]
    IN  KeepChars(spaced, kept)

\* String.prototype.trim
Trim(s) ==
    LET first == CHOOSE i \in 1..Len(s) :
                    ~IsWhitespace(s[i]) /\ \A j \in 1..(i - 1) : IsWhitespace(s[j])
        last == CHOOSE i \in 1..Len(s) :
                    ~IsWhitespace(s[i]) /\ \A j \in (i + 1)..Len(s) : IsWhitespace(s[j])
    IN  IF \A i \in 1..Len(s) : IsWhitespace(s[i]) THEN <<>> ELSE SubSeq(s, first, last)

\* String.prototype.slice(0, n)
Slice(s, n) == SubSeq(s, 1, IF Len(s) < n THEN Len(s) ELSE n)

\* Array.prototype.join(sep) on a sequence of strings
RECURSIVE Join(_, _)
Join(parts, sep) ==
    IF parts = <<>> THEN <<>>
    ELSE IF Len(parts) = 1 THEN parts[1]
    ELSE parts[1] \o sep \o Join(Tail(parts), sep)

Min(a, b) == IF a < b THEN a ELSE b

Max(a, b) == IF a > b THEN a ELSE b

(***************************************************************************)
(* Configuration tables (config/index.js) and pattern lists                *)
(***************************************************************************)
blockedPatterns ==
    << <<"h","a","t","e">>,
    <<"k","i","l","l">>,
    <<"e","x","p","l","o","s","i","v","e">>,
    <<"w","e","a","p","o","n">>,
    <<"t","e","r","r","o","r">>,
    <<"s","e","l","f","-","h","a","r","m">>,
    <<"s","u","i","c","i","d","e">>,
    <<"s","c","a","m">>,
    <<"f","r","a","u","d">>,
    <<"e","x","p","l","o","i","t">>,
    <<"i","l","l","e","g","a","l">>,
    <<"c","h","i","l","d">>,
    <<"t","r","a","f","f","i","c","k","i","n","g">>,
    <<"m","o","n","e","y"," ","l","a","u","n","d","e","r","i","n","g">> >>

flaggedBusinessTypes ==
    << <<"g","a","m","b","l","i","n","g">>,
    <<"a","d","u","l","t">>,
    <<"t","o","b","a","c","c","o">>,
    <<"a","l","c","o","h","o","l">>,
    <<"p","a","y","d","a","y"," ","l","e","n","d","i","n","g">>,
    <<"m","u","l","t","i","-","l","e","v","e","l"," ","m","a","r","k","e","t","i","n","g">> >>

exploitativePatterns ==
    << <<"u","n","p","a","i","d"," ","i","n","t","e","r","n">>,
    <<"n","o"," ","m","i","n","i","m","u","m"," ","w","a","g","e">>,
    <<"b","e","l","o","w"," ","m","i","n","i","m","u","m">>,
    <<"w","o","r","k"," ","w","i","t","h","o","u","t"," ","p","a","y">>,
    <<"v","o","l","u","n","t","e","e","r"," ","l","a","b","o","r">>,
    <<"c","h","i","l","d"," ","w","o","r","k">>,
    <<"f","o","r","c","e","d"," ","l","a","b","o","r">>,
    <<"2","4","/","7"," ","a","v","a","i","l","a","b","i","l","i","t","y">> >>

dangerousPatterns ==
    << <<"g","u","a","r","a","n","t","e","e","d"," ","r","e","t","u","r","n","s">>,
    <<"g","e","t"," ","r","i","c","h"," ","q","u","i","c","k">>,
    <<"p","a","s","s","i","v","e"," ","i","n","c","o","m","e"," ","o","v","e","r","n","i","g","h","t">>,
    <<"1","0","0","%"," ","p","r","o","f","i","t">>,
    <<"z","e","r","o"," ","r","i","s","k">>,
    <<"c","a","n","n","o","t"," ","f","a","i","l">>,
    <<"i","n","s","t","a","n","t"," ","s","u","c","c","e","s","s">> >>

assumptionPatterns ==
    << [category |-> "gender", pattern |-> <<"o","n","l","y"," ","m","e","n"," ","c","a","n">>],
    [category |-> "gender", pattern |-> <<"o","n","l","y"," ","w","o","m","e","n"," ","c","a","n">>],
    [category |-> "gender", pattern |-> <<"m","e","n"," ","a","r","e"," ","b","e","t","t","e","r">>],
    [category |-> "gender", pattern |-> <<"w","o","m","e","n"," ","a","r","e"," ","b","e","t","t","e","r">>],
    [category |-> "age", pattern |-> <<"o","n","l","y"," ","y","o","u","n","g"," ","p","e","o","p","l","e">>],
    [category |-> "age", pattern |-> <<"o","l","d"," ","p","e","o","p","l","e"," ","c","a","n","'","t">>],
    [category |-> "age", pattern |-> <<"t","o","o"," ","o","l","d"," ","t","o">>],
    [category |-> "disability", pattern |-> <<"m","u","s","t"," ","b","e"," ","a","b","l","e","-","b","o","d","i","e","d">>],
    [category |-> "disability", pattern |-> <<"r","e","q","u","i","r","e","s"," ","f","u","l","l"," ","m","o","b","i","l","i","t","y">>],
    [category |-> "disability", pattern |-> <<"n","o"," ","d","i","s","a","b","i","l","i","t","i","e","s">>],
    [category |-> "socioeconomic", pattern |-> <<"r","e","q","u","i","r","e","s"," ","c","o","n","n","e","c","t","i","o","n","s">>],
    [category |-> "socioeconomic", pattern |-> <<"n","e","e","d"," ","w","e","a","l","t","h","y"," ","n","e","t","w","o","r","k">>],
    [category |-> "socioeconomic", pattern |-> <<"p","r","i","v","i","l","e","g","e","d"," ","b","a","c","k","g","r","o","u","n","d">>] >>

budgetFuzzyMap ==
    << [keyword |-> <<"v","e","r","y"," ","l","o","w">>, key |-> <<"u","n","d","e","r","-","1","k">>],
    [keyword |-> <<"m","i","n","i","m","a","l">>, key |-> <<"u","n","d","e","r","-","1","k">>],
    [keyword |-> <<"a","l","m","o","s","t"," ","n","o","t","h","i","n","g">>, key |-> <<"u","n","d","e","r","-","1","k">>],
    [keyword |-> <<"v","e","r","y"," ","l","i","t","t","l","e">>, key |-> <<"u","n","d","e","r","-","1","k">>],
    [keyword |-> <<"b","o","o","t","s","t","r","a","p","p","i","n","g">>, key |-> <<"u","n","d","e","r","-","1","k">>],
    [keyword |-> <<"l","o","w">>, key |-> <<"1","k","-","5","k">>],
    [keyword |-> <<"l","i","m","i","t","e","d">>, key |-> <<"1","k","-","5","k">>],
    [keyword |-> <<"t","i","g","h","t">>, key |-> <<"1","k","-","5","k">>],
    [keyword |-> <<"s","m","a","l","l">>, key |-> <<"1","k","-","5","k">>],
    [keyword |-> <<"m","e","d","i","u","m">>, key |-> <<"5","k","-","2","0","k">>],
    [keyword |-> <<"m","o","d","e","r","a","t","e">>, key |-> <<"5","k","-","2","0","k">>],
    [keyword |-> <<"r","e","a","s","o","n","a","b","l","e">>, key |-> <<"5","k","-","2","0","k">>],
    [keyword |-> <<"s","o","m","e"," ","s","a","v","i","n","g","s">>, key |-> <<"5","k","-","2","0","k">>],
    [keyword |-> <<"g","o","o","d">>, key |-> <<"2","0","k","-","5","0","k">>],
    [keyword |-> <<"s","u","b","s","t","a","n","t","i","a","l">>, key |-> <<"2","0","k","-","5","0","k">>],
    [keyword |-> <<"s","o","l","i","d">>, key |-> <<"2","0","k","-","5","0","k">>],
    [keyword |-> <<"h","i","g","h">>, key |-> <<"o","v","e","r","-","5","0","k">>],
    [keyword |-> <<"s","i","g","n","i","f","i","c","a","n","t">>, key |-> <<"o","v","e","r","-","5","0","k">>],
    [keyword |-> <<"l","a","r","g","e">>, key |-> <<"o","v","e","r","-","5","0","k">>] >>

locationFuzzyMap ==
    << [keyword |-> <<"c","i","t","y">>, key |-> <<"u","r","b","a","n">>],
    [keyword |-> <<"m","e","t","r","o">>, key |-> <<"u","r","b","a","n">>],
    [keyword |-> <<"m","e","t","r","o","p","o","l","i","t","a","n">>, key |-> <<"u","r","b","a","n">>],
    [keyword |-> <<"d","o","w","n","t","o","w","n">>, key |-> <<"u","r","b","a","n">>],
    [keyword |-> <<"s","u","b","u","r","b">>, key |-> <<"s","u","b","u","r","b","a","n">>],
    [keyword |-> <<"o","u","t","s","k","i","r","t","s">>, key |-> <<"s","u","b","u","r","b","a","n">>],
    [keyword |-> <<"t","o","w","n">>, key |-> <<"s","e","m","i","-","u","r","b","a","n">>],
    [keyword |-> <<"s","m","a","l","l"," ","c","i","t","y">>, key |-> <<"s","e","m","i","-","u","r","b","a","n">>],
    [keyword |-> <<"d","i","s","t","r","i","c","t">>, key |-> <<"s","e","m","i","-","u","r","b","a","n">>],
    [keyword |-> <<"v","i","l","l","a","g","e">>, key |-> <<"r","u","r","a","l">>],
    [keyword |-> <<"c","o","u","n","t","r","y","s","i","d","e">>, key |-> <<"r","u","r","a","l">>],
    [keyword |-> <<"f","a","r","m">>, key |-> <<"r","u","r","a","l">>],
    [keyword |-> <<"a","g","r","i","c","u","l","t","u","r","a","l">>, key |-> <<"r","u","r","a","l">>],
    [keyword |-> <<"i","s","o","l","a","t","e","d">>, key |-> <<"r","e","m","o","t","e">>],
    [keyword |-> <<"m","o","u","n","t","a","i","n">>, key |-> <<"r","e","m","o","t","e">>],
    [keyword |-> <<"i","s","l","a","n","d">>, key |-> <<"r","e","m","o","t","e">>] >>

skillCategoryKeywords ==
    << [category |-> "technical", keywords |-> << <<"c","o","d","i","n","g">>, <<"p","r","o","g","r","a","m","m","i","n","g">>, <<"s","o","f","t","w","a","r","e">>, <<"w","e","b">>, <<"a","p","p">>, <<"d","a","t","a">>, <<"c","o","m","p","u","t","e","r">>, <<"t","e","c","h">>, <<"e","n","g","i","n","e","e","r","i","n","g">> >>],
    [category |-> "creative", keywords |-> << <<"d","e","s","i","g","n">>, <<"a","r","t">>, <<"m","u","s","i","c">>, <<"w","r","i","t","i","n","g">>, <<"p","h","o","t","o","g","r","a","p","h","y">>, <<"v","i","d","e","o">>, <<"c","o","n","t","e","n","t">>, <<"c","r","e","a","t","i","v","e">> >>],
    [category |-> "service", keywords |-> << <<"t","e","a","c","h","i","n","g">>, <<"t","u","t","o","r","i","n","g">>, <<"c","o","n","s","u","l","t","i","n","g">>, <<"c","o","a","c","h","i","n","g">>, <<"m","e","n","t","o","r","i","n","g">>, <<"c","o","u","n","s","e","l","i","n","g">>, <<"h","e","l","p","i","n","g">> >>],
    [category |-> "trade", keywords |-> << <<"c","o","o","k","i","n","g">>, <<"b","a","k","i","n","g">>, <<"c","r","a","f","t","i","n","g">>, <<"s","e","w","i","n","g">>, <<"c","a","r","p","e","n","t","r","y">>, <<"r","e","p","a","i","r">>, <<"m","a","i","n","t","e","n","a","n","c","e">>, <<"m","a","k","i","n","g">> >>],
    [category |-> "business", keywords |-> << <<"s","a","l","e","s">>, <<"m","a","r","k","e","t","i","n","g">>, <<"a","c","c","o","u","n","t","i","n","g">>, <<"m","a","n","a","g","e","m","e","n","t">>, <<"o","r","g","a","n","i","z","i","n","g">>, <<"p","l","a","n","n","i","n","g">>, <<"s","t","r","a","t","e","g","y">> >>],
    [category |-> "agricultural", keywords |-> << <<"f","a","r","m","i","n","g">>, <<"g","a","r","d","e","n","i","n","g">>, <<"l","i","v","e","s","t","o","c","k">>, <<"a","g","r","i","c","u","l","t","u","r","e">>, <<"c","u","l","t","i","v","a","t","i","o","n">>, <<"h","a","r","v","e","s","t">> >>],
    [category |-> "healthcare", keywords |-> << <<"n","u","r","s","i","n","g">>, <<"c","a","r","e","g","i","v","i","n","g">>, <<"h","e","a","l","t","h">>, <<"w","e","l","l","n","e","s","s">>, <<"f","i","t","n","e","s","s">>, <<"t","h","e","r","a","p","y">> >>] >>


\* config.budgetRanges, in declaration order
budgetRanges ==
    << [key |-> <<"u","n","d","e","r","-","1","k">>, min |-> 0, max |-> 1000, label |-> "Micro Budget", tier |-> "micro"],
       [key |-> <<"1","k","-","5","k">>, min |-> 1000, max |-> 5000, label |-> "Small Budget", tier |-> "small"],
       [key |-> <<"5","k","-","2","0","k">>, min |-> 5000, max |-> 20000, label |-> "Moderate Budget", tier |-> "moderate"],
       [key |-> <<"2","0","k","-","5","0","k">>, min |-> 20000, max |-> 50000, label |-> "Growth Budget", tier |-> "growth"],
       [key |-> <<"o","v","e","r","-","5","0","k">>, min |-> 50000, max |-> 200000, label |-> "Scale Budget", tier |-> "scale"] >>

\* config.locationContexts, in declaration order
locationContexts ==
    << [key |-> <<"u","r","b","a","n">>, type |-> "urban", marketAccess |-> "high", rentCost |-> "high",
        digitalInfra |-> "strong", competitionLevel |-> "high"],
       [key |-> <<"s","u","b","u","r","b","a","n">>, type |-> "suburban", marketAccess |-> "medium-high", rentCost |-> "medium",
        digitalInfra |-> "strong", competitionLevel |-> "medium"],
       [key |-> <<"s","e","m","i","-","u","r","b","a","n">>, type |-> "semi-urban", marketAccess |-> "medium", rentCost |-> "low-medium",
        digitalInfra |-> "moderate", competitionLevel |-> "low-medium"],
       [key |-> <<"r","u","r","a","l">>, type |-> "rural", marketAccess |-> "low", rentCost |-> "low",
        digitalInfra |-> "limited", competitionLevel |-> "low"],
       [key |-> <<"r","e","m","o","t","e">>, type |-> "remote", marketAccess |-> "very-low", rentCost |-> "very-low",
        digitalInfra |-> "limited", competitionLevel |-> "minimal"] >>

\* Property names every JavaScript object inherits from Object.prototype that
\* survive toLowerCase: table[raw] is truthy for them although the table has no
\* such entry.
InheritedKeys == { <<"c","o","n","s","t","r","u","c","t","o","r">>, <<"_","_","p","r","o","t","o","_","_">> }

\* table[key] of a plain object used as a lookup table: the own entry
HasOwn(table, key) == \E i \in 1..Len(table) : table[i].key = key

OwnEntry(table, key) == table[CHOOSE i \in 1..Len(table) : table[i].key = key]

\* the first fuzzy-map entry, in insertion order, whose keyword raw includes
HasFuzzy(map, raw) == \E i \in 1..Len(map) : Includes(raw, map[i].keyword)

FirstFuzzy(map, raw) ==
    map[CHOOSE i \in 1..Len(map) :
            /\ Includes(raw, map[i].keyword)
            /\ \A j \in 1..(i - 1) : ~Includes(raw, map[j].keyword)]

(***************************************************************************)
(* Step 1: validation and normalisation (pipeline/validation.js)           *)
(***************************************************************************)

normalizeText(value, maxLen) ==
    IF value = <<>> THEN <<>>
    ELSE Slice(Trim(CollapseWhitespace(value)), maxLen)

normalizeLanguage(value) ==
    LET raw == ToLowerCase(normalizeText(value, 40))
    IN  IF raw \in { <<"h","i">>, <<"h","i","n","d","i">> } THEN "Hindi" ELSE "English"

\* The budget record: `own` is FALSE when min, max, label and tier are
\* undefined (the lookup hit an inherited property, which spreads nothing).
normalizeBudget(value) ==
    LET raw == ToLowerCase(normalizeText(value, 60))
        none == [key |-> raw, min |-> 0, max |-> 0, label |-> "undefined",
                 tier |-> "undefined", own |-> FALSE,
                 normalized |-> FALSE, assumed |-> FALSE]
        of(e, n, a) == [key |-> e.key, min |-> e.min, max |-> e.max, label |-> e.label,
                        tier |-> e.tier, own |-> TRUE, normalized |-> n, assumed |-> a]
    IN  IF HasOwn(budgetRanges, raw) THEN of(OwnEntry(budgetRanges, raw), FALSE, FALSE)
        ELSE IF raw \in InheritedKeys THEN none
        ELSE IF HasFuzzy(budgetFuzzyMap, raw)
             THEN of(OwnEntry(budgetRanges, FirstFuzzy(budgetFuzzyMap, raw).key), TRUE, FALSE)
        ELSE of(OwnEntry(budgetRanges, <<"1","k","-","5","k">>), FALSE, TRUE)

normalizeLocation(value) ==
    LET raw == ToLowerCase(normalizeText(value, 60))
        none == [type |-> raw, marketAccess |-> "undefined", rentCost |-> "undefined",
                 digitalInfra |-> "undefined", competitionLevel |-> "undefined",
                 normalized |-> FALSE, assumed |-> FALSE]
        of(e, n, a) == [type |-> e.key, marketAccess |-> e.marketAccess, rentCost |-> e.rentCost,
                        digitalInfra |-> e.digitalInfra, competitionLevel |-> e.competitionLevel,
                        normalized |-> n, assumed |-> a]
    IN  IF HasOwn(locationContexts, raw) THEN of(OwnEntry(locationContexts, raw), FALSE, FALSE)
        ELSE IF raw \in InheritedKeys THEN none
        ELSE IF HasFuzzy(locationFuzzyMap, raw)
             THEN of(OwnEntry(locationContexts, FirstFuzzy(locationFuzzyMap, raw).key), TRUE, FALSE)
        ELSE of(OwnEntry(locationContexts, <<"s","e","m","i","-","u","r","b","a","n">>), FALSE, TRUE)

extractSkillCategories(skillsText) ==
    LET raw == ToLowerCase(normalizeText(skillsText, 400))
        hit(c) == \E i \in 1..Len(c.keywords) : Includes(raw, c.keywords[i])
        detected == SelectSeq(skillCategoryKeywords, hit)
    IN  IF detected # <<>> THEN [i \in 1..Len(detected) |-> detected[i].category]
        ELSE <<"general">>

validateAndNormalize(rawInput) ==
    LET budget == normalizeBudget(rawInput.budget)
        location == normalizeLocation(rawInput.locationType)
        goals == normalizeText(rawInput.goals, 300)
        region == normalizeText(rawInput.region, 80)
    IN  [ skills |-> normalizeText(rawInput.skills, 400),
          interests |-> normalizeText(rawInput.interests, 300),
          targetAudience |-> normalizeText(rawInput.targetAudience, 200),
          budget |-> budget,
          location |-> location,
          language |-> normalizeLanguage(rawInput.language),
          goals |-> IF goals # <<>> THEN goals ELSE <<"B","u","i","l","d"," ","a"," ","s","u","s","t","a","i","n","a","b","l","e"," ","i","n","c","o","m","e"," ","s","o","u","r","c","e">>,
          localData |-> normalizeText(rawInput.localData, 400),
          region |-> IF region # <<>> THEN region
                     ELSE IF rawInput.locationType # <<>> THEN rawInput.locationType
                     ELSE <<"l","o","c","a","l"," ","a","r","e","a">>,
          skillCategories |-> extractSkillCategories(rawInput.skills),
          sessionId |-> rawInput.sessionId,
          meta |-> [ hasAssumedValues |-> budget.assumed \/ location.assumed,
                     assumptions |-> (IF budget.assumed THEN <<"budget">> ELSE <<>>)
                                     \o (IF location.assumed THEN <<"location">> ELSE <<>>) ] ]

\* generateInputSchema.safeParse(req.body).success: the length rules of the
\* required fields.  An optional field left out gets its default, which
\* normalises like the empty string.
generateInputSchema(body) ==
    /\ Len(body.skills) >= 2
    /\ Len(body.interests) >= 2
    /\ Len(body.budget) >= 1
    /\ Len(body.locationType) >= 1
    /\ Len(body.targetAudience) >= 2

(***************************************************************************)
(* Step 2: pre-prompt input safety (pipeline/ethicalSafeguards)            *)
(***************************************************************************)

containsUnsafeContent(text) ==
    LET normalized == ToLowerCase(text)
    IN  \E i \in 1..Len(blockedPatterns) : Includes(normalized, blockedPatterns[i])

containsFlaggedContent(text) ==
    LET normalized == ToLowerCase(text)
        hit(type) == Includes(normalized, type)
        flagged == SelectSeq(flaggedBusinessTypes, hit)
    IN  [hasFlagged |-> Len(flagged) > 0, flaggedItems |-> flagged]

validateInputSafety(normalizedInput) ==
    LET combinedText == Join(<< normalizedInput.skills, normalizedInput.interests,
                                normalizedInput.goals, normalizedInput.localData,
                                normalizedInput.targetAudience >>, <<" ">>)
        flagCheck == containsFlaggedContent(combinedText)
    IN  IF containsUnsafeContent(combinedText)
        THEN [safe |-> FALSE, action |-> "reject", flagged |-> <<>>]
        ELSE IF flagCheck.hasFlagged
        THEN [safe |-> TRUE, action |-> "proceed_with_caution", flagged |-> flagCheck.flaggedItems]
        ELSE [safe |-> TRUE, action |-> "proceed", flagged |-> <<>>]

(***************************************************************************)
(* Step 3: context building (pipeline/contextBuilder.js)                   *)
(***************************************************************************)

\* a JavaScript number that may be NaN (an undefined operand makes it so)
Num(v) == [v |-> v, nan |-> FALSE]

NaN == [v |-> 0, nan |-> TRUE]

\* the key of the local economy profile the context is built from
getLocalEconomyContext(region, locationType) ==
    IF Includes(ToLowerCase(region), <<"a","g","r","a">>) THEN "agra"
    ELSE IF locationType \in { <<"u","r","b","a","n">>, <<"s","u","b","u","r","b","a","n">> } THEN "urban_generic"
    ELSE IF locationType \in { <<"r","u","r","a","l">>, <<"r","e","m","o","t","e">> } THEN "rural_generic"
    ELSE "semiurban_generic"

buildAudienceInsights(targetAudience, location) ==
    LET audienceLower == ToLowerCase(targetAudience)
        has(k) == Includes(audienceLower, k)
        young == has(<<"s","t","u","d","e","n","t">>) \/ has(<<"y","o","u","n","g">>)
        working == has(<<"p","r","o","f","e","s","s","i","o","n","a","l">>) \/ has(<<"w","o","r","k","i","n","g">>)
        family == has(<<"f","a","m","i","l","y">>) \/ has(<<"p","a","r","e","n","t">>)
        tourist == has(<<"t","o","u","r","i","s","t">>) \/ has(<<"t","r","a","v","e","l","e","r">>)
        local == has(<<"l","o","c","a","l">>) \/ has(<<"c","o","m","m","u","n","i","t","y">>)
        channels ==
            (IF young THEN <<"Instagram", "WhatsApp", "YouTube">> ELSE <<>>)
            \o (IF working THEN <<"LinkedIn", "email", "Google">> ELSE <<>>)
            \o (IF family THEN <<"Facebook", "WhatsApp groups", "local networks">> ELSE <<>>)
            \o (IF tourist THEN <<"TripAdvisor", "Google Maps", "Instagram">> ELSE <<>>)
            \o (IF local THEN <<"local markets", "community boards", "WhatsApp">> ELSE <<>>)
        keep(ch) == ch \notin {"LinkedIn", "Instagram"}
    IN  [ primary |-> targetAudience,
          characteristics |->
            (IF young THEN <<"price-sensitive", "tech-savvy", "social-media-active">> ELSE <<>>)
            \o (IF working THEN <<"time-constrained", "quality-focused", "convenience-seeking">> ELSE <<>>)
            \o (IF family THEN <<"value-oriented", "safety-conscious", "trust-seeking">> ELSE <<>>)
            \o (IF tourist THEN <<"experience-seeking", "mobile-first", "review-dependent">> ELSE <<>>)
            \o (IF local THEN <<"relationship-driven", "word-of-mouth", "loyalty-potential">> ELSE <<>>),
          reachChannels |->
            IF location.digitalInfra = "limited"
            THEN SelectSeq(channels, keep) \o <<"local word-of-mouth", "community gatherings">>
            ELSE channels,
          pricesSensitivity |->
            IF local THEN "moderate-high"
            ELSE IF tourist THEN "low"
            ELSE IF family \/ working THEN "moderate"
            ELSE IF young THEN "high"
            ELSE "moderate" ]

buildResourceConstraints(budget, location, skillCategories) ==
    LET base ==
            IF budget.tier = "micro"
            THEN [ canAfford |-> <<"home-based setup", "free tools", "personal network marketing">>,
                   shouldAvoid |-> <<"paid advertising", "inventory investment", "rental space">> ]
            ELSE IF budget.tier = "small"
            THEN [ canAfford |-> <<"basic tools", "small inventory", "social media ads">>,
                   shouldAvoid |-> <<"large inventory", "premium locations", "employees">> ]
            ELSE IF budget.tier = "moderate"
            THEN [ canAfford |-> <<"professional tools", "modest inventory", "basic marketing">>,
                   shouldAvoid |-> <<"over-investment", "premium real estate">> ]
            ELSE [ canAfford |-> <<"professional setup", "marketing budget", "initial team">>,
                   shouldAvoid |-> <<"over-scaling", "unnecessary overhead">> ]
        highRent == location.rentCost = "high"
    IN  [ budgetTier |-> budget.tier,
          budgetRange |-> [ min |-> IF budget.own THEN Num(budget.min) ELSE NaN,
                            max |-> IF budget.own THEN Num(budget.max) ELSE NaN ],
          canAfford |-> base.canAfford
                        \o (IF highRent THEN <<"shared workspace", "online-first approach">> ELSE <<>>),
          shouldAvoid |-> base.shouldAvoid
                          \o (IF highRent THEN <<"physical retail space">> ELSE <<>>) ]

buildContext(normalizedInput) ==
    LET budget == normalizedInput.budget
        location == normalizedInput.location
    IN  [ userProfile |->
            [ skills |-> normalizedInput.skills,
              skillCategories |-> normalizedInput.skillCategories,
              interests |-> normalizedInput.interests,
              targetAudience |-> normalizedInput.targetAudience,
              goals |-> normalizedInput.goals ],
          economicContext |->
            [ budget |-> [ tier |-> budget.tier,
                           range |-> [ min |-> IF budget.own THEN Num(budget.min) ELSE NaN,
                                       max |-> IF budget.own THEN Num(budget.max) ELSE NaN ],
                           label |-> budget.label ],
              location |-> [ type |-> location.type,
                             marketAccess |-> location.marketAccess,
                             digitalInfra |-> location.digitalInfra,
                             competitionLevel |-> location.competitionLevel ],
              localEconomy |-> getLocalEconomyContext(normalizedInput.region, location.type),
              additionalLocalData |-> normalizedInput.localData ],
          audienceInsights |-> buildAudienceInsights(normalizedInput.targetAudience, location),
          resourceConstraints |->
            buildResourceConstraints(budget, location, normalizedInput.skillCategories),
          outputPreferences |-> [ language |-> normalizedInput.language,
                                  region |-> normalizedInput.region ],
          metadata |-> [ sessionId |-> normalizedInput.sessionId,
                         hasAssumedValues |-> normalizedInput.meta.hasAssumedValues,
                         assumptions |-> normalizedInput.meta.assumptions ] ]

(***************************************************************************)
(* Context cache key (storage/firebase.js, contextCache.generateKey)       *)
(***************************************************************************)

\* the printable ASCII characters of codes 32..95 and 97..126 (the grave
\* accent, code 96, occurs in no string of the model)
AsciiLow ==
    <<" ","!","\"","#","$","%","&","'","(",")","*","+",",","-",".","/","0","1","2","3","4","5","6","7","8","9",":",";","<","=",">","?","@","A","B","C","D","E","F","G","H","I","J","K","L","M","N","O","P","Q","R","S","T","U","V","W","X","Y","Z","[","\\","]","^","_">>

AsciiHigh == <<"a","b","c","d","e","f","g","h","i","j","k","l","m","n","o","p","q","r","s","t","u","v","w","x","y","z","{","|","}","~">>

\* the character codes of the characters the model's strings are made of
CharCodes ==
    [c \in {AsciiLow[i] : i \in 1..Len(AsciiLow)}
            \cup {AsciiHigh[i] : i \in 1..Len(AsciiHigh)} \cup {"\t", "\n"} |->
        IF c = "\t" THEN 9
        ELSE IF c = "\n" THEN 10
        ELSE IF \E i \in 1..Len(AsciiLow) : AsciiLow[i] = c
        THEN 31 + (CHOOSE i \in 1..Len(AsciiLow) : AsciiLow[i] = c)
        ELSE 96 + (CHOOSE i \in 1..Len(AsciiHigh) : AsciiHigh[i] = c)]

\* String.prototype.charCodeAt of one character
charCodeAt(c) == CharCodes[c]

\* A 32-bit hash value is carried as two 16-bit limbs <<high, low>>, because
\* the intermediate products do not fit TLC's 32-bit integers.
\* hash = ((hash << 5) - hash) + char; hash = hash & hash   (31 * hash + char, modulo 2^32)
hashStep(hash, char) ==
    LET low == hash[2] * 31 + char
        high == (hash[1] * 31 + (low \div 65536)) % 65536
    IN  << high, low % 65536 >>

\* the loop over the characters from position i on, eight to a level
RECURSIVE hashLoop(_, _, _)
hashLoop(hash, str, i) ==
    LET c(k) == charCodeAt(str[i + k])
    IN  IF hash[1] < 0 \/ i > Len(str) THEN hash
        ELSE IF i + 7 <= Len(str)
        THEN hashLoop(
                hashStep(hashStep(hashStep(hashStep(hashStep(hashStep(hashStep(hashStep(
                    hash, c(0)), c(1)), c(2)), c(3)), c(4)), c(5)), c(6)), c(7)),
                str, i + 8)
        ELSE hashLoop(hashStep(hash, c(0)), str, i + 1)

hashFrom(hash, str) == hashLoop(hash, str, 1)

\* Math.abs of the signed 32-bit value, again as two limbs
MathAbs(hash) ==
    IF hash[1] < 32768 THEN hash
    ELSE << (65535 - hash[1] + (IF hash[2] = 0 THEN 1 ELSE 0)) % 65536,
            (65536 - hash[2]) % 65536 >>

Digits36 == <<"0","1","2","3","4","5","6","7","8","9","a","b","c","d","e","f","g","h","i","j","k","l","m","n","o","p","q","r","s","t","u","v","w","x","y","z">>

\* Number.prototype.toString(36) of a non-negative value given as two limbs
RECURSIVE toString36(_)
toString36(n) ==
    LET t == (n[1] % 36) * 65536 + n[2]
    IN  IF n[1] = 0 /\ n[2] < 36 THEN <<Digits36[n[2] + 1]>>
        ELSE toString36(<< n[1] \div 36, t \div 36 >>) \o <<Digits36[(t % 36) + 1]>>

generateKey(input) ==
    LET str == Join(<< input.skills, input.interests, input.budget,
                       input.locationType, input.targetAudience >>, <<"|">>)
    IN  <<"c","t","x","_">> \o toString36(MathAbs(hashFrom(<<0, 0>>, str)))

(***************************************************************************)
(* Steps 3-4: provider responses (pipeline/aiOrchestration.js)             *)
(*                                                                         *)
(* The text a provider returns is  pre \o core \o post : a JSON value or   *)
(* other text (core) with optional text around it.  The parts are named by *)
(* what stripToJson and JSON.parse can tell apart:                         *)
(*   pre, post : "none", "space" (whitespace only), "prose" (text without  *)
(*               braces), "braced" (text holding a "{" and a "}")          *)
(*   core.kind : "object" (a JSON object, core.doc), "null", "number"      *)
(*               (a bare JSON literal), "garbage" (text without braces),   *)
(*               "braced" (text in braces that is not JSON), "empty"       *)
(***************************************************************************)

HasBrace(part) == part = "braced"

CoreHasBrace(core) == core.kind \in {"object", "braced"}

IsEmptyText(text) ==
    text.pre = "none" /\ text.post = "none" /\ text.core.kind = "empty"

\* String.prototype.trim on a part that is all whitespace or none
TrimPart(part) == IF part = "space" THEN "none" ELSE part

\* text.slice(first, last + 1).trim(), or text.trim() when no "{...}" is found.
\* With a brace somewhere, the text before the first "{" and after the last
\* "}" is dropped: a part survives only if the brace lies inside it.
stripToJson(text) ==
    IF IsEmptyText(text) THEN text
    ELSE IF ~(HasBrace(text.pre) \/ CoreHasBrace(text.core) \/ HasBrace(text.post))
    THEN [text EXCEPT !.pre = TrimPart(@), !.post = TrimPart(@)]
    ELSE [ pre |-> IF HasBrace(text.pre) THEN "braced" ELSE "none",
           core |-> IF CoreHasBrace(text.core) \/ (HasBrace(text.pre) /\ HasBrace(text.post))
                    THEN text.core
                    ELSE [kind |-> "empty"],
           post |-> IF HasBrace(text.post) THEN "braced" ELSE "none" ]

\* JSON.parse: [ok, value].  Text parses iff it is one JSON value with at most
\* whitespace around it.
JSONparse(text) ==
    IF text.pre \in {"none", "space"} /\ text.post \in {"none", "space"}
       /\ text.core.kind \in {"object", "null", "number"}
    THEN [ok |-> TRUE,
          value |-> IF text.core.kind = "object" THEN text.core.doc
                    ELSE [kind |-> text.core.kind]]
    ELSE [ok |-> FALSE, value |-> [kind |-> "undefined"]]


(***************************************************************************)
(* Output documents                                                        *)
(*                                                                         *)
(* A parsed model output, a fallback template and the content of a         *)
(* response are records of one shape:                                      *)
(*   kind               "object", or "null" / "number" for a JSON literal  *)
(*   origin             provenance: "ai" or the fallback template's key    *)
(*   results            whether the `results` object is there              *)
(*   businessIdea       [present, title]      (results.businessIdea)       *)
(*   scores             [present, items]      (results.feasibilityScores), *)
(*                      items a sequence of [iconKey, value]               *)
(*   pitchSummary       results.pitchSummary; stands for the strings the   *)
(*                      model writes; <<>> when there is none              *)
(*   ideas              [kind, n]: "absent", an "array" of n ideas, or a   *)
(*                      "string" of n characters                           *)
(*   decisionSupport    whether the `decisionSupport` object is there      *)
(*   pros               [present, n]          (decisionSupport.pros)       *)
(*   revenueSimulation  [present, year1RevenueMin, year1RevenueMax,        *)
(*                       year1ProfitMin, year1ProfitMax, disclaimer]       *)
(*   budgetSuitability, easeOfExecution       "" when there is none        *)
(*   additionalWarnings [present, messages]                                *)
(*   ethicalSafeguards  [present, scored, safetyScore]                     *)
(*   meta               the `_meta` key: [present, isFallback,             *)
(*                       fallbackReason, budgetKey, locationKey]           *)
(* results.roadmap, decisionSupport.requirements, the cons / assumptions / *)
(* risks / mitigations lists (handled like pros) and localAdaptation are   *)
(* left out.                                                               *)
(*                                                                         *)
(* A score value is [t, v]: t = "num", a number of v half points;          *)
(* t = "str", the decimal string of the integer v; t = "nan", anything     *)
(* that Number() turns into NaN (undefined, an object, other strings).     *)
(***************************************************************************)

\* a document without the `_meta` key
NoMeta ==
    [ present |-> FALSE, isFallback |-> FALSE, fallbackReason |-> <<>>,
      budgetKey |-> "", locationKey |-> "" ]

Points(n) == [t |-> "num", v |-> 2 * n]

NotANumber == [t |-> "nan", v |-> 0]

Score(iconKey, value) == [iconKey |-> iconKey, value |-> value]

NoRevenue ==
    [ present |-> FALSE, year1RevenueMin |-> NaN, year1RevenueMax |-> NaN,
      year1ProfitMin |-> NaN, year1ProfitMax |-> NaN, disclaimer |-> FALSE ]

Revenue(rmin, rmax, pmin, pmax) ==
    [ present |-> TRUE, year1RevenueMin |-> rmin, year1RevenueMax |-> rmax,
      year1ProfitMin |-> pmin, year1ProfitMax |-> pmax, disclaimer |-> TRUE ]

(***************************************************************************)
(* Step 5: feasibility and simulation (pipeline/feasibilitySimulation)     *)
(***************************************************************************)

\* Math.min(value, c) for a number c
MathMin(x, c) ==
    IF x.t = "nan" THEN x
    ELSE IF x.t = "str" THEN Points(Min(x.v, c))
    ELSE [t |-> "num", v |-> Min(x.v, 2 * c)]

\* Math.max(value, c)
MathMax(x, c) ==
    IF x.t = "nan" THEN x
    ELSE IF x.t = "str" THEN Points(Max(x.v, c))
    ELSE [t |-> "num", v |-> Max(x.v, 2 * c)]

\* value -= c : numeric subtraction, a numeric string is converted
Minus(x, c) ==
    IF x.t = "nan" THEN x
    ELSE IF x.t = "str" THEN Points(x.v - c)
    ELSE [t |-> "num", v |-> x.v - 2 * c]

\* value += c for a one-digit c : addition on a number, concatenation on a string
Plus(x, c) ==
    IF x.t = "nan" THEN x
    ELSE IF x.t = "str" THEN [t |-> "str", v |-> 10 * x.v + c]
    ELSE [t |-> "num", v |-> x.v + 2 * c]

\* Math.round of a number of h half points: the nearest integer, a half upwards
MathRound(h) == (h + 1) \div 2

\* clampScore without Math.round
clampScoreNoRound(value) ==
    LET halves == IF value.t = "nan" THEN 0
                  ELSE IF value.t = "str" THEN 2 * value.v
                  ELSE value.v
    IN  [t |-> "num", v |-> Min(200, Max(0, halves))]

\* Math.min(100, Math.max(0, Math.round(Number(value) || 0)))
clampScore(value) ==
    LET halves == IF value.t = "nan" THEN 0
                  ELSE IF value.t = "str" THEN 2 * value.v
                  ELSE value.v
    IN  Points(Min(100, Max(0, MathRound(halves))))

calculateConfidence(context) ==
    LET confidenceScore ==
            50
            + (IF context.economicContext.additionalLocalData # <<>> THEN 10 ELSE 0)
            + (IF Len(context.userProfile.skillCategories) > 1 THEN 10 ELSE 0)
            + (IF ~context.metadata.hasAssumedValues THEN 15 ELSE 0)
            + (IF Len(context.audienceInsights.characteristics) > 0 THEN 10 ELSE 0)
            - (IF \E i \in 1..Len(context.metadata.assumptions) :
                     context.metadata.assumptions[i] = "budget" THEN 10 ELSE 0)
            - (IF \E i \in 1..Len(context.metadata.assumptions) :
                     context.metadata.assumptions[i] = "location" THEN 10 ELSE 0)
    IN  IF confidenceScore >= 70 THEN "high"
        ELSE IF confidenceScore >= 45 THEN "medium"
        ELSE "low"

adjustScore(score, context) ==
    LET loc == context.economicContext.location
        v0 == score.value
        market == LET a == IF loc.marketAccess = "low" THEN MathMin(v0, 70) ELSE v0
                  IN  IF loc.competitionLevel = "high" THEN Minus(a, 10) ELSE a
        execution == LET a == IF Len(context.userProfile.skillCategories) > 2
                              THEN Plus(v0, 5) ELSE v0
                     IN  IF loc.digitalInfra = "limited" THEN Minus(a, 10) ELSE a
        capital == IF context.economicContext.budget.tier = "micro"
                   THEN MathMax(v0, 75) ELSE v0
        risk == IF context.metadata.hasAssumedValues THEN Minus(v0, 10) ELSE v0
        adjustedValue == IF score.iconKey = "market" THEN market
                         ELSE IF score.iconKey = "execution" THEN execution
                         ELSE IF score.iconKey = "capital" THEN capital
                         ELSE IF score.iconKey = "risk" THEN risk
                         ELSE v0
    IN  [score EXCEPT !.value = clampScore(adjustedValue)]

adjustFeasibilityScores(scores, context) ==
    [i \in 1..Len(scores) |-> adjustScore(scores[i], context)]

expectedOrder == <<"market", "execution", "capital", "risk">>

enforceScoreOrder(scores) ==
    \A index \in 1..Len(scores) :
        index <= Len(expectedOrder) /\ scores[index].iconKey = expectedOrder[index]

\* revenueMultipliers, in hundredths
revenueMultipliers(budgetTier) ==
    IF budgetTier = "micro" THEN [min |-> 30, max |-> 150]
    ELSE IF budgetTier = "moderate" THEN [min |-> 40, max |-> 180]
    ELSE IF budgetTier = "growth" THEN [min |-> 30, max |-> 150]
    ELSE IF budgetTier = "scale" THEN [min |-> 25, max |-> 120]
    ELSE [min |-> 50, max |-> 200]

\* Math.min(a, b) on numbers that may be NaN
NumMin(a, b) == IF a.nan \/ b.nan THEN NaN ELSE Num(Min(a.v, b.v))

\* Math.round(a * hundredths / 100)
RoundScaled(a, hundredths) ==
    IF a.nan THEN NaN ELSE Num((a.v * hundredths + 50) \div 100)

calculateRevenueSimulation(context, aiEstimates) ==
    LET budgetRange == context.economicContext.budget.range
        tier == context.economicContext.budget.tier
        budgetTier == IF tier = "undefined" THEN "small" ELSE tier
        multiplier == revenueMultipliers(budgetTier)
        maxReasonable == IF budgetRange.max.nan THEN NaN ELSE Num(budgetRange.max.v * 5)
        year1RevenueMin == IF aiEstimates.present
                           THEN NumMin(aiEstimates.year1RevenueMin, maxReasonable)
                           ELSE RoundScaled(budgetRange.max, multiplier.min)
        year1RevenueMax == IF aiEstimates.present
                           THEN NumMin(aiEstimates.year1RevenueMax, maxReasonable)
                           ELSE RoundScaled(budgetRange.max, multiplier.max)
    IN  Revenue(year1RevenueMin, year1RevenueMax,
                RoundScaled(year1RevenueMin, 10), RoundScaled(year1RevenueMax, 30))

\* decisionSupport.requirements is left out, so requiresAvoidedItems is false
assessBudgetSuitability(context) ==
    LET tier == context.economicContext.budget.tier
    IN  IF tier = "micro" THEN "moderate"
        ELSE IF tier \in {"small", "undefined"} THEN "good"
        ELSE "excellent"

assessEaseOfExecution(context, feasibilityScores) ==
    LET found == \E i \in 1..Len(feasibilityScores) : feasibilityScores[i].iconKey = "execution"
        first == feasibilityScores[CHOOSE i \in 1..Len(feasibilityScores) :
                     /\ feasibilityScores[i].iconKey = "execution"
                     /\ \A j \in 1..(i - 1) : feasibilityScores[j].iconKey # "execution"]
        value == IF found THEN first.value.v \div 2 ELSE 0
        executionScore == IF value = 0 THEN 50 ELSE value
        digitalInfra == context.economicContext.location.digitalInfra
        easeScore == executionScore
                     + (IF Len(context.userProfile.skillCategories) > 0 THEN 10 ELSE 0)
                     - (IF digitalInfra = "limited" THEN 15 ELSE 0)
                     + (IF digitalInfra = "strong" THEN 10 ELSE 0)
    IN  IF easeScore >= 75 THEN "easy"
        ELSE IF easeScore >= 55 THEN "moderate"
        ELSE IF easeScore >= 35 THEN "challenging"
        ELSE "difficult"

\* [threw, output]: threw when the structure check or scores.map raises
processSimulations(aiOutput, context) ==
    IF aiOutput.kind # "object" \/ ~aiOutput.results \/ ~aiOutput.decisionSupport
       \/ ~aiOutput.scores.present
    THEN [threw |-> TRUE, output |-> aiOutput]
    ELSE LET adjustedScores == adjustFeasibilityScores(aiOutput.scores.items, context)
         IN  [ threw |-> FALSE,
               output |-> [aiOutput EXCEPT
                   !.scores = [present |-> TRUE, items |-> adjustedScores],
                   !.revenueSimulation =
                        calculateRevenueSimulation(context, aiOutput.revenueSimulation),
                   !.budgetSuitability = assessBudgetSuitability(context),
                   !.easeOfExecution = assessEaseOfExecution(context, adjustedScores)] ]


(***************************************************************************)
(* Step 6: output safety (pipeline/ethicalSafeguards)                      *)
(***************************************************************************)

\* JSON.stringify of a string: quoted, with the quote, the backslash and the
\* control characters escaped
JSONescape(s) ==
    LET special(c) == c \in {"\"", "\\", "\n", "\t"}
        letter(c) == IF c = "\n" THEN "n" ELSE IF c = "\t" THEN "t" ELSE c
        \* where the escaped form of the first i characters ends
        endAt == [i \in 0..Len(s) |-> i + Cardinality({j \in 1..i : special(s[j])})]
        source(k) == CHOOSE i \in 1..Len(s) : endAt[i - 1] < k /\ k <= endAt[i]
    IN  IF \A i \in 1..Len(s) : ~special(s[i]) THEN s
        ELSE
        [k \in 1..endAt[Len(s)] |->
            IF ~special(s[source(k)]) THEN s[source(k)]
            ELSE IF k < endAt[source(k)] THEN "\\"
            ELSE letter(s[source(k)])]

\* JSON.stringify(aiOutput), as far as the pattern scans can tell: the
\* model-written strings, quoted and separated.  The key names, the numbers
\* and the strings that processSimulations adds contain none of the scanned
\* patterns, and no pattern contains a quote or a comma, so none matches
\* across two values.
JSONstringify(output) ==
    (IF output.businessIdea.present
     THEN <<"\"">> \o JSONescape(output.businessIdea.title) \o <<"\"", ",">>
     ELSE <<>>)
    \o (IF output.pitchSummary = <<>> THEN <<>>
        ELSE <<"\"">> \o JSONescape(output.pitchSummary) \o <<"\"">>)

detectExploitativeLabor(text) ==
    LET normalized == ToLowerCase(text)
    IN  \E i \in 1..Len(exploitativePatterns) : Includes(normalized, exploitativePatterns[i])

RevenueRangeMessage == <<"R","e","v","e","n","u","e"," ","r","a","n","g","e"," ","i","s"," ","u","n","r","e","a","l","i","s","t","i","c","a","l","l","y"," ","w","i","d","e">>

ProfitMarginMessage == <<"P","r","o","f","i","t"," ","m","a","r","g","i","n"," ","p","r","o","j","e","c","t","i","o","n","s"," ","m","a","y"," ","b","e"," ","u","n","r","e","a","l","i","s","t","i","c">>

MisleadingMessage(pattern) ==
    <<"C","o","n","t","a","i","n","s"," ","p","o","t","e","n","t","i","a","l","l","y"," ","m","i","s","l","e","a","d","i","n","g"," ","l","a","n","g","u","a","g","e",":"," ","\"">> \o pattern \o <<"\"">>

\* the issues list of detectFinancialMisinformation
detectFinancialMisinformation(text, revenueSimulation) ==
    LET rmin == revenueSimulation.year1RevenueMin
        rmax == revenueSimulation.year1RevenueMax
        pmax == revenueSimulation.year1ProfitMax
        wide == /\ revenueSimulation.present
                /\ ~rmin.nan /\ ~rmax.nan
                /\ rmax.v > rmin.v * 10
        \* year1ProfitMax / year1RevenueMax > 0.5
        margin == /\ revenueSimulation.present
                  /\ ~pmax.nan /\ ~rmax.nan
                  /\ \/ rmax.v > 0 /\ 2 * pmax.v > rmax.v
                     \/ rmax.v < 0 /\ 2 * pmax.v < rmax.v
        normalized == ToLowerCase(text)
        hit(pattern) == Includes(normalized, pattern)
        phrases == SelectSeq(dangerousPatterns, hit)
    IN  (IF wide THEN <<RevenueRangeMessage>> ELSE <<>>)
        \o (IF margin THEN <<ProfitMarginMessage>> ELSE <<>>)
        \o [i \in 1..Len(phrases) |-> MisleadingMessage(phrases[i])]

\* the indicators list of detectBias
detectBias(output) ==
    LET textToCheck == ToLowerCase(JSONstringify(output))
        hit(p) == Includes(textToCheck, p.pattern)
        found == SelectSeq(assumptionPatterns, hit)
    IN  [i \in 1..Len(found) |->
            [category |-> found[i].category, pattern |-> found[i].pattern, severity |-> "high"]]

validateOutputSafety(aiOutput) ==
    LET outputText == JSONstringify(aiOutput)
        financial == detectFinancialMisinformation(outputText, aiOutput.revenueSimulation)
        indicators == detectBias(aiOutput)
        issues ==
            (IF containsUnsafeContent(outputText)
             THEN <<[type |-> "harmful_content", severity |-> "critical"]>> ELSE <<>>)
            \o (IF detectExploitativeLabor(outputText)
                THEN <<[type |-> "exploitative_labor", severity |-> "critical"]>> ELSE <<>>)
            \o [i \in 1..Len(indicators) |->
                    [type |-> "bias", severity |-> indicators[i].severity]]
        warnings == [i \in 1..Len(financial) |->
                        [type |-> "financial_misinformation", severity |-> "warning",
                         message |-> financial[i]]]
        critical(i) == i.severity = "critical"
        criticalIssues == SelectSeq(issues, critical)
    IN  [ safe |-> Len(criticalIssues) = 0,
          issues |-> issues,
          warnings |-> warnings,
          action |-> IF Len(criticalIssues) > 0 THEN "block"
                     ELSE IF Len(warnings) > 0 THEN "proceed_with_warnings"
                     ELSE "proceed" ]

\* applySafetyFilters without its null return
applySafetyFiltersNoBlock(output, safetyCheck) ==
    [ blocked |-> FALSE,
      output |-> IF Len(safetyCheck.warnings) > 0
                 THEN [output EXCEPT !.additionalWarnings =
                          [present |-> TRUE,
                           messages |-> [i \in 1..Len(safetyCheck.warnings) |->
                                            safetyCheck.warnings[i].message]]]
                 ELSE output ]

\* [blocked, output]: blocked stands for the null return
applySafetyFilters(output, safetyCheck) ==
    IF safetyCheck.safe /\ Len(safetyCheck.warnings) = 0
    THEN [blocked |-> FALSE, output |-> output]
    ELSE LET filteredOutput ==
                 IF Len(safetyCheck.warnings) > 0
                 THEN [output EXCEPT !.additionalWarnings =
                          [present |-> TRUE,
                           messages |-> [i \in 1..Len(safetyCheck.warnings) |->
                                            safetyCheck.warnings[i].message]]]
                 ELSE output
         IN  [blocked |-> ~safetyCheck.safe, output |-> filteredOutput]

\* the safetyScore of generateEthicalSafeguards
generateEthicalSafeguards(context, outputSafetyCheck) ==
    [ present |-> TRUE, scored |-> TRUE,
      safetyScore |-> Max(0, 100 - Len(outputSafetyCheck.warnings) * 5
                                 - Len(outputSafetyCheck.issues) * 10) ]

(***************************************************************************)
(* Fallback provider (pipeline/fallback.js)                                *)
(***************************************************************************)

Template(key, title, pitch, m, e, c, r, rev, suitability, ease) ==
    [ kind |-> "object", origin |-> key, results |-> TRUE,
      businessIdea |-> [present |-> TRUE, title |-> title],
      scores |-> [present |-> TRUE,
                  items |-> << Score("market", Points(m)), Score("execution", Points(e)),
                               Score("capital", Points(c)), Score("risk", Points(r)) >>],
      pitchSummary |-> pitch,
      ideas |-> [kind |-> "array", n |-> 3],
      decisionSupport |-> TRUE,
      pros |-> [present |-> TRUE, n |-> 4],
      revenueSimulation |-> rev,
      budgetSuitability |-> suitability,
      easeOfExecution |-> ease,
      additionalWarnings |-> [present |-> FALSE, messages |-> <<>>],
      ethicalSafeguards |-> [present |-> TRUE, scored |-> FALSE, safetyScore |-> 0],
      meta |-> NoMeta ]

\* fallbackResponses[budgetKey][locationKey]; the dash of the pitch summaries
\* is written "-"
fallbackResponses(budgetKey, locationKey) ==
    IF budgetKey = "micro" /\ locationKey = "urban"
    THEN Template("micro.urban", <<"L","o","c","a","l"," ","S","e","r","v","i","c","e"," ","M","a","r","k","e","t","p","l","a","c","e">>,
                  <<"T","u","r","n"," ","y","o","u","r"," ","e","v","e","r","y","d","a","y"," ","s","k","i","l","l","s"," ","i","n","t","o"," ","i","n","c","o","m","e"," ","b","y"," ","s","e","r","v","i","n","g"," ","y","o","u","r"," ","l","o","c","a","l"," ","c","o","m","m","u","n","i","t","y","-","s","t","a","r","t","i","n","g"," ","t","o","d","a","y"," ","w","i","t","h"," ","z","e","r","o"," ","i","n","v","e","s","t","m","e","n","t",".">>,
                  78, 85, 95, 72,
                  Revenue(Num(2000), Num(8000), Num(1800), Num(7200)), "excellent", "easy")
    ELSE IF budgetKey = "micro" /\ locationKey = "rural"
    THEN Template("micro.rural", <<"F","a","r","m","-","t","o","-","C","o","m","m","u","n","i","t","y"," ","P","r","o","d","u","c","t","s">>,
                  <<"B","r","i","n","g"," ","t","h","e"," ","b","e","s","t"," ","o","f"," ","r","u","r","a","l"," ","a","g","r","i","c","u","l","t","u","r","e"," ","d","i","r","e","c","t","l","y"," ","t","o"," ","c","o","n","s","u","m","e","r","s"," ","w","h","o"," ","v","a","l","u","e"," ","a","u","t","h","e","n","t","i","c","i","t","y"," ","a","n","d"," ","l","o","c","a","l"," ","s","o","u","r","c","i","n","g",".">>,
                  72, 68, 88, 65,
                  Revenue(Num(1500), Num(6000), Num(1000), Num(4500)), "excellent", "moderate")
    ELSE IF budgetKey = "small" /\ locationKey = "rural"
    THEN Template("small.rural", <<"A","g","r","i","-","T","o","u","r","i","s","m"," ","E","x","p","e","r","i","e","n","c","e">>,
                  <<"G","i","v","e"," ","p","e","o","p","l","e"," ","t","h","e"," ","a","u","t","h","e","n","t","i","c"," ","r","u","r","a","l"," ","e","x","p","e","r","i","e","n","c","e"," ","t","h","e","y","'","r","e"," ","s","e","e","k","i","n","g","-","e","s","c","a","p","e",","," ","l","e","a","r","n","i","n","g",","," ","a","n","d"," ","m","e","m","o","r","i","e","s",".">>,
                  70, 62, 75, 60,
                  Revenue(Num(5000), Num(18000), Num(2500), Num(12000)), "good", "challenging")
    ELSE Template("small.urban", <<"S","p","e","c","i","a","l","i","z","e","d"," ","L","o","c","a","l"," ","S","e","r","v","i","c","e","s">>,
                  <<"D","e","l","i","v","e","r"," ","e","x","c","e","p","t","i","o","n","a","l"," ","q","u","a","l","i","t","y"," ","i","n"," ","a"," ","s","p","e","c","i","f","i","c"," ","n","i","c","h","e","-","b","e","c","a","u","s","e"," ","c","u","s","t","o","m","e","r","s"," ","w","i","l","l"," ","p","a","y"," ","m","o","r","e"," ","f","o","r"," ","e","x","p","e","r","t","i","s","e"," ","t","h","e","y"," ","c","a","n"," ","t","r","u","s","t",".">>,
                  75, 70, 82, 68,
                  Revenue(Num(8000), Num(25000), Num(4000), Num(15000)), "good", "moderate")

\* the {} the handler's catch block passes
EmptyContext == [empty |-> TRUE]

\* getFallbackResponse without the location mapping: always the urban column
getFallbackResponseUrban(context) ==
    LET tier == IF context = EmptyContext THEN "undefined"
                ELSE context.economicContext.budget.tier
        budgetKey == IF tier = "micro" THEN "micro" ELSE "small"
    IN  [fallbackResponses(budgetKey, "urban") EXCEPT
            !.meta = [ present |-> TRUE, isFallback |-> TRUE,
                       fallbackReason |-> <<"P","r","i","m","a","r","y"," ","A","I"," ","g","e","n","e","r","a","t","i","o","n"," ","u","n","a","v","a","i","l","a","b","l","e">>,
                       budgetKey |-> budgetKey, locationKey |-> "urban" ]]

getFallbackResponse(context) ==
    LET tier == IF context = EmptyContext THEN "undefined"
                ELSE context.economicContext.budget.tier
        budgetTier == IF tier = "undefined" THEN "small" ELSE tier
        locationType == IF context = EmptyContext THEN <<"u","r","b","a","n">>
                        ELSE context.economicContext.location.type
        budgetKey == IF budgetTier \in {"micro", "small"} THEN budgetTier ELSE "small"
        locationKey == IF locationType \in { <<"r","u","r","a","l">>, <<"r","e","m","o","t","e">> } THEN "rural" ELSE "urban"
    IN  [fallbackResponses(budgetKey, locationKey) EXCEPT
            !.meta = [ present |-> TRUE, isFallback |-> TRUE,
                       fallbackReason |-> <<"P","r","i","m","a","r","y"," ","A","I"," ","g","e","n","e","r","a","t","i","o","n"," ","u","n","a","v","a","i","l","a","b","l","e">>,
                       budgetKey |-> budgetKey, locationKey |-> locationKey ]]


(***************************************************************************)
(* Step 7: response formatting (pipeline/responseFormatter.js)             *)
(***************************************************************************)

\* .replace(/<[^>]*>/g, ""): a character goes iff a "<" at or before it has
\* no ">" between the two, and a ">" follows at or after it
RemoveTags(s) ==
    LET kept(i) ==
            ~\E p \in 1..i :
                /\ s[p] = "<"
                /\ \A k \in p..(i - 1) : s[k] # ">"
                /\ \E q \in i..Len(s) : s[q] = ">"
    IN  IF \A i \in 1..Len(s) : s[i] # "<" THEN s ELSE KeepChars(s, kept)

\* .replace(/javascript:/gi, ""): occurrences cannot overlap
RemoveJsProtocol(s) ==
    LET lit == <<"j","a","v","a","s","c","r","i","p","t",":">>
        occursAt(p) == /\ p >= 1 /\ p + Len(lit) - 1 <= Len(s)
                       /\ LowerChar(s[p]) = "j"
                       /\ ToLowerCase(SubSeq(s, p, p + Len(lit) - 1)) = lit
        kept(i) == ~\E p \in (i - Len(lit) + 1)..i : occursAt(p)
    IN  IF \A i \in 1..Len(s) : s[i] # ":" THEN s ELSE KeepChars(s, kept)

\* the characters the regular expression class \w matches
IsWordChar(c) ==
    \/ \E i \in 1..Len(UpperChars) : UpperChars[i] = c \/ LowerChars[i] = c
    \/ c \in {"0", "1", "2", "3", "4", "5", "6", "7", "8", "9", "_"}

\* .replace(/on\w+=/gi, ""): "on", one or more word characters, "=".  Matches
\* that overlap end at the same "=", so what goes is the union of them.
RemoveEventHandlers(s) ==
    LET matchAt(p, e) == /\ s[e] = "="
                         /\ e >= p + 3
                         /\ LowerChar(s[p]) = "o" /\ LowerChar(s[p + 1]) = "n"
                         /\ \A k \in (p + 2)..(e - 1) : IsWordChar(s[k])
        kept(i) == ~\E e \in i..Len(s) : s[e] = "=" /\ \E p \in 1..i : matchAt(p, e)
    IN  IF \A i \in 1..Len(s) : s[i] # "=" THEN s ELSE KeepChars(s, kept)

sanitizeText(text) ==
    IF text = <<>> THEN <<>>
    ELSE Trim(RemoveEventHandlers(RemoveJsProtocol(RemoveTags(text))))

\* sanitizeObject on a document: every string through sanitizeText, the keys
\* that start with "_" dropped
sanitizeObject(obj) ==
    [obj EXCEPT
        !.businessIdea = [@ EXCEPT !.title = sanitizeText(@)],
        !.pitchSummary = sanitizeText(@),
        !.additionalWarnings =
            [@ EXCEPT !.messages = [i \in 1..Len(@) |-> sanitizeText(@[i])]],
        !.meta = NoMeta]

DefaultPitchSummary ==
    <<"A"," ","p","r","a","c","t","i","c","a","l"," ","b","u","s","i","n","e","s","s"," ","o","p","p","o","r","t","u","n","i","t","y"," ","d","e","s","i","g","n","e","d"," ","f","o","r"," ","y","o","u","r"," ","u","n","i","q","u","e"," ","s","i","t","u","a","t","i","o","n",".">>

\* [threw, output]: threw when output.ideas.push is not a function
ensureDefaults(output) ==
    LET shortString == output.ideas.kind = "string" /\ output.ideas.n \in 1..2
        padded == IF output.ideas.kind = "array" /\ output.ideas.n >= 3 THEN output.ideas
                  ELSE IF output.ideas.kind = "string" /\ output.ideas.n >= 3 THEN output.ideas
                  ELSE [kind |-> "array", n |-> 3]
    IN  [ threw |-> shortString,
          output |-> [output EXCEPT
              !.results = TRUE,
              !.businessIdea = IF @.present THEN @
                               ELSE [present |-> TRUE, title |-> <<"B","u","s","i","n","e","s","s"," ","I","d","e","a">>],
              !.scores = IF @.present /\ Len(@.items) = 4 THEN @
                         ELSE [present |-> TRUE,
                               items |-> << Score("market", Points(60)),
                                            Score("execution", Points(55)),
                                            Score("capital", Points(70)),
                                            Score("risk", Points(50)) >>],
              !.pitchSummary = IF @ # <<>> THEN @ ELSE DefaultPitchSummary,
              !.ideas = padded,
              !.decisionSupport = TRUE,
              !.pros = IF @.present THEN @ ELSE [present |-> TRUE, n |-> 2],
              !.revenueSimulation =
                  IF @.present THEN @
                  ELSE [Revenue(Num(5000), Num(15000), Num(500), Num(4500))
                           EXCEPT !.disclaimer = TRUE],
              !.budgetSuitability = IF @ # "" THEN @ ELSE "moderate",
              !.easeOfExecution = IF @ # "" THEN @ ELSE "moderate",
              !.ethicalSafeguards = IF @.present THEN @
                                    ELSE [present |-> TRUE, scored |-> FALSE, safetyScore |-> 0]] ]

\* [threw, response]; resultId is what generateResultId() returned.  The
\* response takes results, ideas, decisionSupport, ethicalSafeguards and
\* localAdaptation from the sanitized output, no other top-level key.
formatResponse(output, sessionId, metadata, resultId) ==
    LET completeOutput == ensureDefaults(output)
    IN  [ threw |-> completeOutput.threw,
          response |->
            [ resultId |-> resultId,
              sessionId |-> sessionId,
              content |-> [sanitizeObject(completeOutput.output) EXCEPT !.meta = NoMeta],
              metadata |->
                [ modelPrimary |-> IF metadata.primaryModel # "" THEN metadata.primaryModel
                                   ELSE "unknown",
                  modelSecondary |-> IF metadata.secondaryModel \notin {"", "null"}
                                     THEN metadata.secondaryModel ELSE "none",
                  confidence |-> IF metadata.confidence # "" THEN metadata.confidence
                                 ELSE "medium" ] ] ]

(***************************************************************************)
(* Output schema (apiResponseSchema): the rules on the modelled fields     *)
(***************************************************************************)

feasibilityScoreSchema(score) ==
    /\ score.value.t = "num"
    /\ score.value.v >= 0 /\ score.value.v <= 200
    /\ score.iconKey \in {"market", "execution", "capital", "risk"}

revenueSimulationSchema(rev) ==
    /\ rev.present
    /\ ~rev.year1RevenueMin.nan /\ rev.year1RevenueMin.v >= 0
    /\ ~rev.year1RevenueMax.nan /\ rev.year1RevenueMax.v >= 0
    /\ ~rev.year1ProfitMin.nan
    /\ ~rev.year1ProfitMax.nan

apiResponseSchema(response) ==
    LET c == response.content
    IN  /\ c.results
        /\ c.businessIdea.present /\ Len(c.businessIdea.title) >= 3
        /\ c.scores.present /\ Len(c.scores.items) = 4
        /\ \A i \in 1..Len(c.scores.items) : feasibilityScoreSchema(c.scores.items[i])
        /\ Len(c.pitchSummary) >= 10
        /\ c.ideas.kind = "array"
        /\ c.decisionSupport
        /\ c.pros.present /\ c.pros.n >= 2
        /\ revenueSimulationSchema(c.revenueSimulation)
        /\ c.budgetSuitability \in {"excellent", "good", "moderate", "challenging"}
        /\ c.easeOfExecution \in {"easy", "moderate", "challenging", "difficult"}
        /\ c.ethicalSafeguards.present
        /\ c.ethicalSafeguards.scored =>
               (c.ethicalSafeguards.safetyScore >= 0 /\ c.ethicalSafeguards.safetyScore <= 100)


(***************************************************************************)
(* State                                                                   *)
(***************************************************************************)

VARIABLES
    env,        \* the process environment: the configured providers, the API keys set
    handlers,   \* per request: the POST /api/generate handler's position and locals
    sessions,   \* memoryStore.sessions
    contexts,   \* memoryStore.contexts
    results,    \* resultStore.results
    uuids,      \* how many values crypto.randomUUID() has returned
    now,        \* Date.now(), in milliseconds since the process started
    evaluated,  \* a function applied on its own: [fn, input, op, result]
    retrieved   \* the last answer of GET /api/session/:id or GET /api/result/:id

vars == <<env, handlers, sessions, contexts, results, uuids, now, evaluated, retrieved>>

\* the number of requests the server model follows
MaxRequests == 2

Requests == 1..MaxRequests

\* config.fallback.cacheExpiry
cacheExpiry == 3600000

\* how often, and by how much, the clock of the server model advances
MaxTicks == 3

TickMs == cacheExpiry \div 2 + 1

\* null, and an absent optional string
Null == <<>>

\* no GET request has been answered
NotRetrieved == [route |-> "none", key |-> Null, status |-> 0, body |-> Null]

\* no function is applied on its own.  fn names the function to apply to
\* input; op names it once it has returned result.
NotEvaluated == [fn |-> "none", input |-> Null, op |-> "none", result |-> Null]

\* a crypto.randomUUID() that returns one value every time
UuidFixed(n) == <<"uuid", 0>>

\* the n-th value of crypto.randomUUID(): every call returns a new value
Uuid(n) == <<"uuid", n>>

\* config.ai as seen by the pipeline: only `primary` and `secondary` exist
configAi ==
    [ primary |-> [provider |-> env.primary, model |-> "gpt-4o-mini"],
      secondary |-> [provider |-> env.secondary, model |-> "gpt-4o"] ]

\* whether the client object of the provider that callAI dispatches to exists
ClientOf(provider) ==
    IF provider = "gemini" THEN env.gemini
    ELSE IF provider = "anthropic" THEN env.anthropic
    ELSE env.openai

checkAIAvailability ==
    [ primaryAvailable |-> ClientOf(configAi.primary.provider),
      fallbackAvailable |-> env.openai,
      secondaryAvailable |-> IF configAi.secondary.provider = "openai"
                             THEN env.openai ELSE env.anthropic ]

(***************************************************************************)
(* Stores (storage/firebase.js): a Map is a set of entries with distinct   *)
(* keys                                                                    *)
(***************************************************************************)

MapHas(map, key) == \E e \in map : e.key = key

MapGet(map, key) == CHOOSE e \in map : e.key = key

\* sessionStore.set / contextCache.set / resultStore.save.  expiresAt is kept
\* as an ISO string of millisecond precision, which new Date() reads back to
\* the same number of milliseconds.
MapSet(map, key, value) ==
    {e \in map : e.key # key}
    \cup {[key |-> key, value |-> value, expiresAt |-> now + cacheExpiry]}

\* the get of a store that does not look at expiresAt
StoreGetNoExpiry(map, key) ==
    IF ~MapHas(map, key) THEN [found |-> FALSE, value |-> Null, map |-> map]
    ELSE [found |-> TRUE, value |-> MapGet(map, key).value, map |-> map]

\* the get of the three stores: [found, value, map], an expired entry is
\* deleted and not returned
StoreGet(map, key) ==
    IF ~MapHas(map, key) THEN [found |-> FALSE, value |-> Null, map |-> map]
    ELSE IF MapGet(map, key).expiresAt < now
    THEN [found |-> FALSE, value |-> Null, map |-> {e \in map : e.key # key}]
    ELSE [found |-> TRUE, value |-> MapGet(map, key).value, map |-> map]

(***************************************************************************)
(* POST /api/generate (server/README.md).  One request's handler runs in   *)
(* segments that end where it awaits a provider; a segment is one step.    *)
(* The operators below take and return a record st of the handler's locals *)
(* (st.h) and the shared stores.                                           *)
(***************************************************************************)

\* the handler's outputSafety before validateOutputSafety has run
NoVerdict == [safe |-> TRUE, issues |-> <<>>, warnings |-> <<>>, action |-> "none"]

IdleHandler ==
    [ pc |-> "idle",                \* "idle", "calling" (awaiting a provider), "done"
      sessionId |-> Null,
      input |-> Null,               \* parsed.data
      context |-> EmptyContext,
      inflight |-> [role |-> "none", attempt |-> "none"],
      calls |-> <<>>,               \* the provider requests sent, in order
      callAI |-> [primary |-> "none", secondary |-> "none"],
      orchestrationLog |-> <<>>,
      orchestration |-> [state |-> "none", success |-> FALSE, parseFailed |-> FALSE,
                         rawJson |-> Null],
      processedOutput |-> Null,
      outputSafety |-> NoVerdict,
      threwIn |-> "none",           \* the stage whose exception reached the catch block
      path |-> "none",              \* the return statement taken
      status |-> 0,
      body |-> Null ]

\* what a segment of the handler leaves behind: the locals and the stores
\* (st), where the handler goes next and with what:
\*   "await"         it awaits a provider or has answered
\*   "orchestrated"  orchestrateAIGeneration has returned; arg is result.output
\*   "fallback"      it serves the fallback; arg is the return statement
\*   "catch"         an exception reached the catch block; arg is the stage
Outcome(st, next, arg) == [st |-> st, next |-> next, arg |-> arg]

Respond(st, status, body, path) ==
    Outcome([st EXCEPT !.h.pc = "done", !.h.status = status, !.h.body = body,
                       !.h.path = path,
                       !.h.inflight = [role |-> "none", attempt |-> "none"]],
            "await", Null)

formatErrorResponse(error, sessionId) ==
    [error |-> error, sessionId |-> sessionId]

\* the metadata of a fallback response with another confidence
FallbackMetadataMedium ==
    [primaryModel |-> "fallback", secondaryModel |-> "null", confidence |-> "medium"]

\* the metadata the handler passes to formatResponse with a fallback
FallbackMetadata ==
    [primaryModel |-> "fallback", secondaryModel |-> "null", confidence |-> "low"]

\* the end of the catch block, fr being formatResponse of the fallback for an
\* empty context: a 500 if building it threw
CatchRespond(st, fr) ==
    IF fr.threw
    THEN Respond(st, 500, formatErrorResponse("Failed to generate results", st.h.sessionId),
                 "fallback_failed").st
    ELSE Respond(st, 200, fr.response, "caught").st

\* a catch block that answers 500 without trying the fallback
HandlerCatchNoFallback(st, stage) ==
    Respond([st EXCEPT !.h.threwIn = stage], 500,
            formatErrorResponse("Failed to generate results", st.h.sessionId),
            "fallback_failed").st

\* the catch block
HandlerCatch(st, stage) ==
    CatchRespond([st EXCEPT !.uuids = @ + 1, !.h.threwIn = stage],
                 formatResponse(getFallbackResponse(EmptyContext), st.h.sessionId,
                                FallbackMetadata, Uuid(st.uuids + 1)))

\* res.json(formatResponse(fallback, ...)) inside the try block
FallbackRespond(st, path, fr) ==
    IF fr.threw THEN Outcome(st, "catch", "format")
    ELSE Respond(st, 200, fr.response, path)

\* getFallbackResponse(context) and its formatting inside the try block
ServeFallback(st, path) ==
    FallbackRespond([st EXCEPT !.uuids = @ + 1], path,
                    formatResponse(getFallbackResponse(st.h.context), st.h.sessionId,
                                   FallbackMetadata, Uuid(st.uuids + 1)))

\* the end of the handler's segment: the fallback return statements and the
\* catch block
Finish(o) ==
    IF o.next = "catch" THEN HandlerCatch(o.st, o.arg) ELSE o.st

Settle(o) ==
    Finish(IF o.next = "fallback" THEN ServeFallback(o.st, o.arg) ELSE o)

\* step 7 after formatResponse: resultStore.save, sessionStore.set, res.json
Step7Respond(st, fr) ==
    IF fr.threw THEN Outcome(st, "catch", "format")
    ELSE Respond(
            [st EXCEPT
                !.results = MapSet(@, fr.response.resultId, fr.response),
                !.sessions = MapSet(@, st.h.sessionId,
                                    [ input |-> st.h.input, context |-> st.h.context,
                                      stage |-> "completed",
                                      resultId |-> fr.response.resultId ])],
            200, fr.response, "generated")

\* aiResult.metadata.secondaryModel || config.ai.secondary.model
SecondaryModelOf(skipSecondary) ==
    LET secondaryModel == IF skipSecondary THEN "null" ELSE configAi.secondary.model
    IN  IF secondaryModel \in {"", "null"} THEN configAi.secondary.model ELSE secondaryModel

\* step 6 after applySafetyFilters, and step 7
Step7Format(st, skipSecondary, filtered, safeguards) ==
    IF filtered.blocked THEN Outcome(st, "fallback", "blocked")
    ELSE Step7Respond(
            [st EXCEPT !.uuids = @ + 1],
            formatResponse([filtered.output EXCEPT !.ethicalSafeguards = safeguards],
                           st.h.sessionId,
                           [ primaryModel |-> configAi.primary.model,
                             secondaryModel |-> SecondaryModelOf(skipSecondary),
                             confidence |-> calculateConfidence(st.h.context) ],
                           Uuid(st.uuids + 1)))

\* step 6 on the verdict of validateOutputSafety
Step6Filter(st, skipSecondary, output, outputSafety) ==
    Step7Format([st EXCEPT !.h.processedOutput = output, !.h.outputSafety = outputSafety],
                skipSecondary,
                applySafetyFilters(output, outputSafety),
                generateEthicalSafeguards(st.h.context, outputSafety))

\* step 6 on the result of processSimulations
Step6OutputSafety(st, skipSecondary, sim) ==
    IF sim.threw THEN Outcome(st, "catch", "simulation")
    ELSE Step6Filter(st, skipSecondary, sim.output, validateOutputSafety(sim.output))

\* step 5 on the parsed model output: aiResult.output.results of null throws,
\* the results of enforceScoreOrder and enforceRoadmapPhases are not used
Step5Process(st, skipSecondary, output) ==
    IF output.kind = "null" THEN Outcome(st, "catch", "step5")
    ELSE Step6OutputSafety(st, skipSecondary, processSimulations(output, st.h.context))

\* the handler after orchestrateAIGeneration has returned or thrown
AfterOrchestration(o, skipSecondary) ==
    IF o.next # "orchestrated" THEN o
    ELSE IF o.st.h.orchestration.state = "threw" THEN Outcome(o.st, "catch", "orchestration")
    ELSE IF ~o.st.h.orchestration.success
    THEN Outcome(o.st, "fallback", "orchestration_failed")
    ELSE Step5Process(o.st, skipSecondary, o.arg)

LogStep(st, step) == [st EXCEPT !.h.orchestrationLog = Append(@, step)]

\* orchestrateAIGeneration without its catch block: the exception leaves it
OrchestrateCatchRethrow(st) ==
    Outcome([st EXCEPT !.h.orchestration.state = "threw",
                       !.h.orchestration.success = FALSE],
            "orchestrated", Null)

\* the catch block of orchestrateAIGeneration
OrchestrateCatch(st) ==
    Outcome([LogStep(st, "error") EXCEPT !.h.orchestration.state = "returned",
                                         !.h.orchestration.success = FALSE],
            "orchestrated", Null)

\* the success return of orchestrateAIGeneration
OrchestrateReturn(st, output) ==
    Outcome([st EXCEPT !.h.orchestration.state = "returned",
                       !.h.orchestration.success = TRUE],
            "orchestrated", output)

\* JSON.parse(rawJson)
ParseFinal(st, rawJson, parsed) ==
    IF ~parsed.ok
    THEN OrchestrateCatch([st EXCEPT !.h.orchestration.rawJson = rawJson,
                                     !.h.orchestration.parseFailed = TRUE])
    ELSE OrchestrateReturn([st EXCEPT !.h.orchestration.rawJson = rawJson], parsed.value)

PromptsOf(role) ==
    IF role = "primary"
    THEN [system |-> "primarySystemPrompt", user |-> "userPrompt"]
    ELSE [system |-> "secondarySystemPrompt", user |-> "structuringPrompt"]

SendCall(st, role, provider, attempt) ==
    Outcome([st EXCEPT !.h.pc = "calling",
                       !.h.inflight = [role |-> role, attempt |-> attempt],
                       !.h.calls = Append(@, [ role |-> role, provider |-> provider,
                                               attempt |-> attempt,
                                               system |-> PromptsOf(role).system,
                                               user |-> PromptsOf(role).user,
                                               outcome |-> "pending" ])],
            "await", Null)

\* callAI's catch blocks: the provider's call (attempt "provider") or the
\* fallback call (attempt "fallback") has failed
CallFailed(st, role, attempt) ==
    IF attempt = "provider" /\ configAi[role].provider # "openai" /\ env.openai
    THEN \* callOpenAI({ ..., model: config.ai.fallback.model, ... })
         IF "fallback" \in DOMAIN configAi
         THEN SendCall(st, role, "openai", "fallback")
         ELSE OrchestrateCatch([st EXCEPT !.h.callAI[role] = "failed"])
    ELSE OrchestrateCatch([st EXCEPT !.h.callAI[role] = "failed"])

\* callPrimaryModel / callSecondaryModel up to the provider request
IssueCall(st, role) ==
    IF ClientOf(configAi[role].provider)
    THEN SendCall([st EXCEPT !.h.callAI[role] = "pending"], role,
                  configAi[role].provider, "provider")
    ELSE CallFailed([st EXCEPT !.h.callAI[role] = "pending"], role, "provider")

SetOutcome(st, outcome) ==
    [st EXCEPT !.h.calls[Len(st.h.calls)].outcome = outcome]

\* orchestrateAIGeneration calling the secondary model whatever skipSecondary
CallCompletedAlwaysSecondary(st, skipSecondary, role, rawJson) ==
    IF role = "primary"
    THEN IssueCall(LogStep(LogStep(st, "primary_model_complete"), "secondary_model_start"),
                   "secondary")
    ELSE ParseFinal(LogStep(st, "secondary_model_complete"), rawJson, JSONparse(rawJson))

\* orchestrateAIGeneration after a provider request of role has answered
CallCompleted(st, skipSecondary, role, rawJson) ==
    IF role = "primary" /\ ~skipSecondary
    THEN IssueCall(LogStep(LogStep(st, "primary_model_complete"), "secondary_model_start"),
                   "secondary")
    ELSE ParseFinal(LogStep(st, IF role = "primary" THEN "primary_model_complete"
                                ELSE "secondary_model_complete"),
                    rawJson, JSONparse(rawJson))

\* a provider request has answered with text
CallReturned(st, skipSecondary, text) ==
    CallCompleted([SetOutcome(st, "returned") EXCEPT !.h.callAI[st.h.inflight.role] = "returned"],
                  skipSecondary, st.h.inflight.role, stripToJson(text))

\* step 4: checkAIAvailability, then orchestrateAIGeneration up to the first
\* provider request
Step4Generate(st) ==
    IF ~checkAIAvailability.primaryAvailable
    THEN Outcome(st, "fallback", "primary_unavailable")
    ELSE IssueCall([LogStep(st, "primary_model_start") EXCEPT
                       !.h.orchestration.state = "running"],
                   "primary")

\* step 3 with the context in hand: contextCache.set unless it came from the
\* cache, sessionStore.set
Step3Store(st, body, cacheKey, cached, context) ==
    Step4Generate(
        [st EXCEPT
            !.h.input = body,
            !.h.context = context,
            !.contexts = IF cached.found THEN @ ELSE MapSet(cached.map, cacheKey, context),
            !.sessions = MapSet(@, st.h.sessionId,
                                [ input |-> body, context |-> context,
                                  stage |-> "generating", resultId |-> Null ])])

\* step 3: the cached context, or buildContext(normalizedInput)
Step3Context(st, body, normalizedInput, cacheKey, cached) ==
    Step3Store(st, body, cacheKey, cached,
               IF cached.found THEN cached.value ELSE buildContext(normalizedInput))

\* step 2 on the normalized input
Step2InputSafety(st, body, normalizedInput, cacheKey) ==
    IF ~validateInputSafety(normalizedInput).safe
    THEN Respond(st, 400,
                 formatErrorResponse("Input contains unsafe content", st.h.sessionId),
                 "unsafe_input")
    ELSE Step3Context(st, body, normalizedInput, cacheKey, StoreGet(st.contexts, cacheKey))

\* step 1 with the session stored before the input is parsed
Step1ValidateStoreFirst(st, body) ==
    IF ~generateInputSchema(body)
    THEN Respond([st EXCEPT !.sessions =
                      MapSet(@, st.h.sessionId,
                             [ input |-> body, context |-> EmptyContext,
                               stage |-> "generating", resultId |-> Null ])],
                 400, formatErrorResponse("Invalid input", st.h.sessionId),
                 "invalid_input")
    ELSE Step2InputSafety(st, body, validateAndNormalize(body), generateKey(body))

\* step 1: generateInputSchema.safeParse, then validateAndNormalize
Step1Validate(st, body) ==
    IF ~generateInputSchema(body)
    THEN Respond(st, 400, formatErrorResponse("Invalid input", st.h.sessionId),
                 "invalid_input")
    ELSE Step2InputSafety(st, body, validateAndNormalize(body), generateKey(body))

\* the handler from its first line to the first provider request:
\* sessionId = req.body?.sessionId || crypto.randomUUID()
HandleGenerate(st, body) ==
    Step1Validate(
        [st EXCEPT !.uuids = IF body.sessionId = Null THEN @ + 1 ELSE @,
                   !.h.sessionId = IF body.sessionId = Null THEN Uuid(st.uuids + 1)
                                   ELSE body.sessionId],
        body)

(***************************************************************************)
(* Actions                                                                 *)
(***************************************************************************)

StateOf(r) ==
    [h |-> handlers[r], sessions |-> sessions, contexts |-> contexts,
     results |-> results, uuids |-> uuids]

Commit(r, st) ==
    /\ handlers' = [handlers EXCEPT ![r] = st.h]
    /\ sessions' = st.sessions
    /\ contexts' = st.contexts
    /\ results' = st.results
    /\ uuids' = st.uuids
    /\ UNCHANGED <<env, now, evaluated, retrieved>>

\* whether orchestrateAIGeneration runs without the secondary model
skipSecondary == ~checkAIAvailability.secondaryAvailable

\* a client posts body to /api/generate
Generate(r, body) ==
    /\ handlers[r].pc = "idle"
    /\ Commit(r, Settle(AfterOrchestration(HandleGenerate(StateOf(r), body), skipSecondary)))

\* the provider request in flight answers with text
ProviderReturns(r, text) ==
    /\ handlers[r].pc = "calling"
    /\ Commit(r, Settle(AfterOrchestration(CallReturned(StateOf(r), skipSecondary, text),
                                           skipSecondary)))

\* the provider request in flight fails (network, authentication, timeout)
ProviderFails(r) ==
    /\ handlers[r].pc = "calling"
    /\ Commit(r, Settle(AfterOrchestration(
                    CallFailed(SetOutcome(StateOf(r), "failed"),
                               handlers[r].inflight.role, handlers[r].inflight.attempt),
                    skipSecondary)))

\* the answer of a GET route to what the store's get returned
Retrieve(route, key, got) ==
    retrieved' = [ route |-> route, key |-> key,
                   status |-> IF got.found THEN 200 ELSE 404,
                   body |-> got.value ]

\* GET /api/session/:sessionId
GetSession(sessionId) ==
    /\ sessions' = StoreGet(sessions, sessionId).map
    /\ Retrieve("session", sessionId, StoreGet(sessions, sessionId))
    /\ UNCHANGED <<env, handlers, contexts, results, uuids, now, evaluated>>

\* GET /api/result/:resultId
GetResult(resultId) ==
    /\ results' = StoreGet(results, resultId).map
    /\ Retrieve("result", resultId, StoreGet(results, resultId))
    /\ UNCHANGED <<env, handlers, sessions, contexts, uuids, now, evaluated>>

\* the clock advances; only the stores' expiry checks read it
Tick ==
    /\ now < MaxTicks * TickMs
    /\ now' = now + TickMs
    /\ UNCHANGED <<env, handlers, sessions, contexts, results, uuids, evaluated, retrieved>>

(***************************************************************************)
(* Inputs                                                                  *)
(***************************************************************************)

\* the environments: PRIMARY_AI_PROVIDER, SECONDARY_AI_PROVIDER and which of
\* OPENAI_API_KEY, ANTHROPIC_API_KEY, GEMINI_API_KEY are set
Providers == {"openai", "anthropic", "gemini"}

\* which keys are set: all, only OPENAI_API_KEY, all but it, none
KeySets ==
    { [openai |-> TRUE, anthropic |-> TRUE, gemini |-> TRUE],
      [openai |-> TRUE, anthropic |-> FALSE, gemini |-> FALSE],
      [openai |-> FALSE, anthropic |-> TRUE, gemini |-> TRUE],
      [openai |-> FALSE, anthropic |-> FALSE, gemini |-> FALSE] }

Envs ==
    { [primary |-> p, secondary |-> s,
       openai |-> k.openai, anthropic |-> k.anthropic, gemini |-> k.gemini] :
        p \in Providers, s \in {"openai", "anthropic"}, k \in KeySets }

BaseBody ==
    [ skills |-> <<"c","o","d","i","n","g">>, interests |-> <<"m","u","s","i","c">>, budget |-> <<"u","n","d","e","r","-","1","k">>,
      locationType |-> <<"u","r","b","a","n">>, targetAudience |-> <<"s","t","u","d","e","n","t","s">>,
      goals |-> <<>>, localData |-> <<>>, region |-> <<>>, language |-> <<>>,
      sessionId |-> Null ]

\* request bodies: the base body with one or two fields changed
Bodies ==
    { BaseBody,
      [BaseBody EXCEPT !.sessionId = <<"client", 1>>],
      [BaseBody EXCEPT !.budget = <<"1","k","-","5","k">>, !.locationType = <<"r","u","r","a","l">>],
      [BaseBody EXCEPT !.budget = <<"o","v","e","r","-","5","0","k">>, !.locationType = <<"S","m","a","l","l"," ","C","i","t","y">>],
      [BaseBody EXCEPT !.budget = <<"n","o","t"," ","s","u","r","e">>, !.locationType = <<"s","o","m","e","w","h","e","r","e">>],
      [BaseBody EXCEPT !.budget = <<"t","i","g","h","t">>, !.locationType = <<"r","e","m","o","t","e">>,
                       !.localData = <<"w","e","e","k","l","y"," ","m","a","r","k","e","t">>],
      [BaseBody EXCEPT !.skills = <<"w","e","b"," ","d","e","s","i","g","n",","," ","s","a","l","e","s">>, !.targetAudience = <<"a","d","u","l","t","s">>],
      [BaseBody EXCEPT !.skills = <<"a">>],
      [BaseBody EXCEPT !.budget = <<>>],
      [BaseBody EXCEPT !.interests = <<"I"," ","h","a","t","e"," ","m","o","n","d","a","y","s">>],
      [BaseBody EXCEPT !.goals = <<"a","v","o","i","d"," ","S","C","A","M","S">>],
      [BaseBody EXCEPT !.localData = <<"C","h","i","l","d"," ","c","a","r","e"," ","i","s"," ","s","c","a","r","c","e">>],
      [BaseBody EXCEPT !.targetAudience = <<"w","e","a","p","o","n"," ","c","o","l","l","e","c","t","o","r","s">>],
      [BaseBody EXCEPT !.region = <<"i","l","l","e","g","a","l"," ","d","u","m","p","i","n","g"," ","z","o","n","e">>] }

\* the bodies of the server model
ServerBodies ==
    { BaseBody,
      [BaseBody EXCEPT !.sessionId = <<"client", 1>>],
      [BaseBody EXCEPT !.sessionId = <<"client", 1>>, !.skills = <<"a">>],
      [BaseBody EXCEPT !.sessionId = <<"client", 1>>, !.goals = <<"a","v","o","i","d"," ","S","C","A","M","S">>],
      [BaseBody EXCEPT !.interests = <<"I"," ","h","a","t","e"," ","m","o","n","d","a","y","s">>] }

OrderedScores(m, e, c, r) ==
    << Score("market", m), Score("execution", e), Score("capital", c), Score("risk", r) >>

\* a well-formed model output
BaseDoc ==
    [ kind |-> "object", origin |-> "ai", results |-> TRUE,
      businessIdea |-> [present |-> TRUE, title |-> <<"T","e","a"," ","s","t","a","l","l">>],
      scores |-> [present |-> TRUE,
                  items |-> OrderedScores(Points(80), Points(60), Points(70), Points(50))],
      pitchSummary |-> <<"S","e","l","l"," ","t","e","a"," ","t","o"," ","c","o","m","m","u","t","e","r","s">>,
      ideas |-> [kind |-> "array", n |-> 3],
      decisionSupport |-> TRUE,
      pros |-> [present |-> TRUE, n |-> 3],
      revenueSimulation |-> NoRevenue,
      budgetSuitability |-> "",
      easeOfExecution |-> "",
      additionalWarnings |-> [present |-> FALSE, messages |-> <<>>],
      ethicalSafeguards |-> [present |-> FALSE, scored |-> FALSE, safetyScore |-> 0],
      meta |-> NoMeta ]

Estimate(rmin, rmax) == [NoRevenue EXCEPT !.present = TRUE, !.year1RevenueMin = rmin,
                                          !.year1RevenueMax = rmax]

\* decisionSupport.revenueSimulation as a model may supply it: plausible, a
\* zero minimum, a negative minimum, a figure that is not a number (left out,
\* or text), figures above every cap, a minimum above the maximum
RevenueEstimates ==
    { Estimate(Num(1000), Num(3000)), Estimate(Num(0), Num(4000)),
      Estimate(Num(0 - 100), Num(500)), Estimate(NaN, Num(2000)),
      Estimate(Num(2000), NaN),
      Estimate(Num(900000), Num(1000000)), Estimate(Num(3000), Num(1000)) }

\* the longest feasibilityScores array a model output carries
MaxScores == 5

\* the most entries of the ideas array of a model output
MaxIdeas == 6

ScoreOrders ==
    { OrderedScores(Points(80), Points(60), Points(70), Points(50)),
      << Score("risk", Points(50)), Score("capital", Points(70)),
         Score("execution", Points(60)), Score("market", Points(80)) >>,
      << Score("market", Points(80)), Score("market", Points(60)),
         Score("capital", Points(70)), Score("risk", Points(50)) >> }

\* score values a model may supply: in range, fractional, out of range,
\* a numeric string, not a number
ScoreValues ==
    { Points(0), [t |-> "num", v |-> 111], [t |-> "num", v |-> 199], Points(150),
      Points(0 - 5), [t |-> "str", v |-> 85], NotANumber }

\* arrays of 0..MaxScores scores, the first four in order
ScoreArrays ==
    { [i \in 1..n |-> Score(expectedOrder[((i - 1) % 4) + 1], Points(50 + i))] :
        n \in 0..MaxScores }

Summaries ==
    { <<"g","u","a","r","a","n","t","e","e","d"," ","r","e","t","u","r","n","s",","," ","z","e","r","o"," ","r","i","s","k">>,
      <<"O","n","l","y"," ","w","o","m","e","n"," ","c","a","n"," ","r","u","n"," ","t","h","i","s">>,
      <<"T","o","o"," ","o","l","d"," ","t","o"," ","l","e","a","r","n","?"," ","N","o">>,
      <<"H","i","r","e"," ","u","n","p","a","i","d"," ","i","n","t","e","r","n","s">>,
      <<"K","i","l","l"," ","t","h","e"," ","c","o","m","p","e","t","i","t","i","o","n">>,
      <<"<","b",">","T","e","a","<","/","b",">"," ","<","s","c","r","i","p","t",">","x","<","/","s","c","r","i","p","t",">">>,
      <<"<","i","m","<","b",">","g"," ","o","n","e","r","r","o","r","=","a","l","e","r","t","(","1",")",">">>,
      <<>> }

Docs ==
    {BaseDoc}
    \cup { [BaseDoc EXCEPT !.scores.items = s] : s \in ScoreOrders \cup ScoreArrays }
    \cup { [BaseDoc EXCEPT !.scores.items = OrderedScores(v, v, v, v)] : v \in ScoreValues }
    \cup { [BaseDoc EXCEPT !.scores.present = FALSE, !.scores.items = <<>>] }
    \cup { [BaseDoc EXCEPT !.pitchSummary = p] : p \in Summaries }
    \cup { [BaseDoc EXCEPT !.businessIdea = b] :
             b \in { [present |-> FALSE, title |-> <<>>], [present |-> TRUE, title |-> <<>>],
                     [present |-> TRUE, title |-> <<"W","e","a","p","o","n"," ","s","h","o","p">>] } }
    \cup { [BaseDoc EXCEPT !.ideas = [kind |-> "array", n |-> n]] : n \in 0..MaxIdeas }
    \cup { [BaseDoc EXCEPT !.ideas = i] :
             i \in { [kind |-> "absent", n |-> 0], [kind |-> "string", n |-> 2],
                     [kind |-> "string", n |-> 5] } }
    \cup { [BaseDoc EXCEPT !.ideas = [kind |-> "string", n |-> 2],
                           !.pitchSummary = <<"g","u","a","r","a","n","t","e","e","d"," ","r","e","t","u","r","n","s">>] }
    \cup { [BaseDoc EXCEPT !.pros = p] :
             p \in { [present |-> FALSE, n |-> 0], [present |-> TRUE, n |-> 1] } }
    \cup { [BaseDoc EXCEPT !.results = FALSE], [BaseDoc EXCEPT !.decisionSupport = FALSE] }
    \cup { [BaseDoc EXCEPT !.revenueSimulation = e] : e \in RevenueEstimates }

Object(doc) == [pre |-> "none", core |-> [kind |-> "object", doc |-> doc], post |-> "none"]

\* what a provider may answer
Texts ==
    { Object(d) : d \in Docs }
    \cup { [Object(BaseDoc) EXCEPT !.pre = p, !.post = q] :
             p \in {"space", "prose", "braced"}, q \in {"none", "prose", "braced"} }
    \cup { [pre |-> p, core |-> [kind |-> k], post |-> "none"] :
             p \in {"none", "space", "prose"},
             k \in {"null", "number", "garbage", "braced", "empty"} }

ServerTexts ==
    { Object(BaseDoc),
      Object([BaseDoc EXCEPT !.pitchSummary = <<"H","i","r","e"," ","u","n","p","a","i","d"," ","i","n","t","e","r","n","s">>]),
      [pre |-> "none", core |-> [kind |-> "garbage"], post |-> "none"] }

ServerEnvs ==
    { [primary |-> "openai", secondary |-> "openai",
       openai |-> TRUE, anthropic |-> FALSE, gemini |-> FALSE],
      [primary |-> "gemini", secondary |-> "anthropic",
       openai |-> TRUE, anthropic |-> FALSE, gemini |-> TRUE] }

\* budget inputs: every bucket key, fuzzy keywords, other text, a property
\* name every object inherits
BudgetInputs ==
    { <<"u","n","d","e","r","-","1","k">>, <<"1","k","-","5","k">>, <<"5","k","-","2","0","k">>, <<"2","0","k","-","5","0","k">>, <<"o","v","e","r","-","5","0","k">>,
      <<"U","n","d","e","r","-","1","K">>, <<"t","i","g","h","t">>, <<"n","o","t"," ","s","u","r","e">>, <<"c","o","n","s","t","r","u","c","t","o","r">>, <<"x","y","z">> }

LocationInputs ==
    { <<"u","r","b","a","n">>, <<"s","u","b","u","r","b","a","n">>, <<"s","e","m","i","-","u","r","b","a","n">>, <<"r","u","r","a","l">>, <<"r","e","m","o","t","e">>,
      <<"S","m","a","l","l"," ","C","i","t","y">>, <<"s","o","m","e","w","h","e","r","e">>, <<"c","o","n","s","t","r","u","c","t","o","r">> }

\* the length of a text longer than every cap of validateAndNormalize
LongLen == 450

\* a text of n characters: words of 18 letters, two spaces between them
LongText(n) == [i \in 1..n |-> IF i % 20 \in {0, 19} THEN " " ELSE "a"]

\* bodies the schema accepts with one text field long, padded or doubly
\* spaced; region is left out where locationType is the changed field
TextBodies ==
    { [BaseBody EXCEPT !.skills = LongText(LongLen)],
      [BaseBody EXCEPT !.interests = LongText(LongLen)],
      [BaseBody EXCEPT !.targetAudience = LongText(LongLen)],
      [BaseBody EXCEPT !.goals = LongText(LongLen)],
      [BaseBody EXCEPT !.localData = LongText(LongLen)],
      [BaseBody EXCEPT !.region = LongText(LongLen)],
      [BaseBody EXCEPT !.region = <<" "," ","A","g","r","a"," "," "," ","d","i","s","t","r","i","c","t"," ">>],
      [BaseBody EXCEPT !.locationType = LongText(LongLen)],
      [BaseBody EXCEPT !.locationType = <<"s","m","a","l","l"," "," ","t","o","w","n">>],
      [BaseBody EXCEPT !.locationType = <<"r","u","r","a","l">>, !.region = <<"A","g","r","a">>] }

\* strings a model may put in its output: plain, one pattern each, patterns
\* nested so that removing one occurrence leaves another
SanitizeTexts ==
    { <<"S","e","l","l"," ","t","e","a"," ","t","o"," ","c","o","m","m","u","t","e","r","s">>,
      <<"<","b",">","T","e","a","<","/","b",">"," ","s","t","a","l","l">>,
      <<"<","<","b",">","s","c","r","i","p","t",">","x">>,
      <<"s","e","e"," ","j","a","v","a","s","c","r","i","p","t",":","a","l","e","r","t","(","1",")">>,
      <<"J","a","v","a","S","c","r","i","p","t",":","x">>,
      <<"i","m","g"," ","o","n","e","r","r","o","r","=","a","l","e","r","t","(","1",")">>,
      <<"j","a","v","a","j","a","v","a","s","c","r","i","p","t",":","s","c","r","i","p","t",":","a","l","e","r","t","(","1",")">>,
      <<"o","o","n","c","l","i","c","k","=","n","c","l","i","c","k","=","x">>,
      <<"j","a","v","a","o","n","x","=","s","c","r","i","p","t",":","x">>,
      <<"j","a","v","a","<","b",">","s","c","r","i","p","t",":","x">> }

\* what formatResponse is called with: a model output carrying the string as
\* title, pitch summary and warning, and the metadata of the handler
FormatInputs ==
    { [ output |-> [BaseDoc EXCEPT !.businessIdea.title = s,
                                   !.pitchSummary = s,
                                   !.additionalWarnings =
                                       [present |-> TRUE, messages |-> <<s>>]],
        metadata |-> [primaryModel |-> "gpt-4o", secondaryModel |-> "null",
                      confidence |-> "medium"] ] :
        s \in SanitizeTexts }

\* the contexts buildContext makes of the budget and location inputs
FunctionContexts ==
    { buildContext(validateAndNormalize(
          [BaseBody EXCEPT !.budget = b, !.locationType = l])) :
        b \in BudgetInputs, l \in LocationInputs }

\* the call fn(input) that is about to be made
Call(fn, input) == [NotEvaluated EXCEPT !.fn = fn, !.input = input]

\* the call returns
Evaluate(fn, result) ==
    /\ evaluated.fn = fn /\ evaluated.op = "none"
    /\ evaluated' = [evaluated EXCEPT !.op = fn, !.result = result]
    /\ UNCHANGED <<env, handlers, sessions, contexts, results, uuids, now, retrieved>>

\* what getFallbackResponse is called with: the context of a request with
\* the given budget and location, or the {} of the handler's catch block
FallbackInputs ==
    { [ budget |-> b, locationType |-> l,
        context |-> buildContext(validateAndNormalize(
                        [BaseBody EXCEPT !.budget = b, !.locationType = l])) ] :
        b \in BudgetInputs, l \in LocationInputs }
    \cup { [budget |-> Null, locationType |-> Null, context |-> EmptyContext] }

ApplyGetFallbackResponse ==
    Evaluate("getFallbackResponse", getFallbackResponse(evaluated.input.context))

\* validateAndNormalize applied to a request body that passed the schema
ApplyValidateAndNormalize ==
    Evaluate("validateAndNormalize", validateAndNormalize(evaluated.input))

ApplyFormatResponse ==
    Evaluate("formatResponse",
             formatResponse(evaluated.input.output, Null, evaluated.input.metadata,
                            Uuid(1)))

\* execution scores after adjustFeasibilityScores: integers of 0..100
ExecutionScores == { 5 * k : k \in 0..20 }

\* contexts of a strong, a moderate and a limited digital infrastructure
EaseContexts ==
    { buildContext(validateAndNormalize([BaseBody EXCEPT !.locationType = l])) :
        l \in { <<"u","r","b","a","n">>, <<"s","e","m","i","-","u","r","b","a","n">>, <<"r","u","r","a","l">> } }

\* one context with a lower and a higher execution score
EaseInputs ==
    { [context |-> context, lower |-> lower, higher |-> higher] :
        context \in EaseContexts,
        lower \in ExecutionScores, higher \in ExecutionScores \ {0} }

\* assessEaseOfExecution applied to the same context and scores that differ
\* in the execution score only
ApplyAssessEaseOfExecution ==
    Evaluate("assessEaseOfExecution",
             [ lower |-> assessEaseOfExecution(
                            evaluated.input.context,
                            OrderedScores(Points(80), Points(evaluated.input.lower),
                                          Points(70), Points(50))),
               higher |-> assessEaseOfExecution(
                            evaluated.input.context,
                            OrderedScores(Points(80), Points(evaluated.input.higher),
                                          Points(70), Points(50))) ])

ApplyCalculateRevenueSimulation ==
    Evaluate("calculateRevenueSimulation",
             calculateRevenueSimulation(evaluated.input.context,
                                        evaluated.input.aiEstimates))

(***************************************************************************)
(* Specifications                                                          *)
(***************************************************************************)

InitStores ==
    /\ handlers = [r \in Requests |-> IdleHandler]
    /\ sessions = {}
    /\ contexts = {}
    /\ results = {}
    /\ uuids = 0
    /\ now = 0
    /\ evaluated = NotEvaluated
    /\ retrieved = NotRetrieved

\* one request through the pipeline, over every environment, body and answer
Init == env \in Envs /\ InitStores

Next ==
    \/ \E body \in Bodies : Generate(1, body)
    \/ \E text \in Texts : ProviderReturns(1, text)
    \/ ProviderFails(1)

Spec == Init /\ [][Next]_vars

\* the server: several requests interleaved over the shared stores and the clock
InitServer == env \in ServerEnvs /\ InitStores

NextServer ==
    \/ \E r \in Requests, body \in ServerBodies : Generate(r, body)
    \/ \E r \in Requests, text \in ServerTexts : ProviderReturns(r, text)
    \/ \E r \in Requests : ProviderFails(r)
    \/ Tick

SpecServer == InitServer /\ [][NextServer]_vars

\* the stores: requests that store sessions, contexts and results, reads of
\* sessions and results through the GET routes, and the clock
StoreBodies == { BaseBody, [BaseBody EXCEPT !.sessionId = <<"client", 1>>] }

\* the ids a client may ask for: those handed out so far and one never used
KnownIds == { <<"client", 1>>, Uuid(0) } \cup { Uuid(n) : n \in 1..uuids }

NextStores ==
    \/ \E r \in Requests, body \in StoreBodies : Generate(r, body)
    \/ \E r \in Requests : ProviderReturns(r, Object(BaseDoc))
    \/ \E id \in KnownIds : GetSession(id)
    \/ \E id \in KnownIds : GetResult(id)
    \/ Tick

SpecStores == InitServer /\ [][NextStores]_vars

\* one request while time passes.  A provider request in flight may be
\* answered, may fail, or may stay unanswered for ever: nothing is assumed of
\* the providers, only that the clock advances.  The handler has no step of
\* its own while it awaits the provider (no timer is set around the call).
NextLive ==
    \/ \E body \in ServerBodies : Generate(1, body)
    \/ \E text \in ServerTexts : ProviderReturns(1, text)
    \/ ProviderFails(1)
    \/ Tick

SpecLive == InitServer /\ [][NextLive]_vars /\ WF_vars(Tick)

\* the same with a provider request that, unless answered, fails in the end
SpecLiveAnswering ==
    SpecLive /\ ([]<>(handlers[1].pc # "calling") \/ []<><<ProviderFails(1)>>_vars)

\* requests that share the five fields of the cache key and differ in the
\* other fields, and one with another budget
CacheBodies ==
    { BaseBody,
      [BaseBody EXCEPT !.region = <<"A","g","r","a">>, !.language = <<"h","i","n","d","i">>,
                       !.goals = <<"E","a","r","n"," ","m","o","r","e">>, !.localData = <<"w","e","e","k","l","y"," ","m","a","r","k","e","t">>],
      [BaseBody EXCEPT !.sessionId = <<"client", 1>>],
      [BaseBody EXCEPT !.budget = <<"1","k","-","5","k">>] }

\* interleaved requests over the context cache
NextCache ==
    \/ \E r \in Requests, body \in CacheBodies : Generate(r, body)
    \/ \E r \in Requests : ProviderReturns(r, Object(BaseDoc))
    \/ \E r \in Requests : ProviderFails(r)
    \/ Tick

SpecCache == InitServer /\ [][NextCache]_vars

\* every keyword of the two fuzzy maps, alone, as the budget or as the
\* location type of a request
KeywordBodies ==
    { [BaseBody EXCEPT !.budget = budgetFuzzyMap[i].keyword] :
        i \in 1..Len(budgetFuzzyMap) }
    \cup { [BaseBody EXCEPT !.locationType = locationFuzzyMap[i].keyword] :
              i \in 1..Len(locationFuzzyMap) }

\* the functions of the pipeline applied on their own: the initial state
\* draws the function and its input, the step applies the function
InitFunctions ==
    /\ env \in ServerEnvs
    /\ handlers = [r \in Requests |-> IdleHandler]
    /\ sessions = {} /\ contexts = {} /\ results = {}
    /\ uuids = 0 /\ now = 0
    /\ retrieved = NotRetrieved
    /\ \/ \E context \in FunctionContexts,
             aiEstimates \in RevenueEstimates \cup {NoRevenue} :
               evaluated = Call("calculateRevenueSimulation",
                                [context |-> context, aiEstimates |-> aiEstimates])
       \/ \E input \in FallbackInputs :
               evaluated = Call("getFallbackResponse", input)
       \/ \E b \in BudgetInputs, l \in LocationInputs :
               evaluated = Call("validateAndNormalize",
                                [BaseBody EXCEPT !.budget = b, !.locationType = l])
       \/ \E rawInput \in TextBodies \cup KeywordBodies :
               evaluated = Call("validateAndNormalize", rawInput)
       \/ \E input \in FormatInputs :
               evaluated = Call("formatResponse", input)
       \/ \E input \in EaseInputs :
               input.lower < input.higher
               /\ evaluated = Call("assessEaseOfExecution", input)

NextFunctions ==
    \/ ApplyCalculateRevenueSimulation
    \/ ApplyGetFallbackResponse
    \/ ApplyValidateAndNormalize
    \/ ApplyFormatResponse
    \/ ApplyAssessEaseOfExecution

SpecFunctions == InitFunctions /\ [][NextFunctions]_vars

(***************************************************************************)
(* Properties                                                              *)
(***************************************************************************)

Answered(r, status) == handlers[r].pc = "done" /\ handlers[r].status = status

\* the keys of the fallback templates
TemplateKeys == {"micro.urban", "micro.rural", "small.urban", "small.rural"}

Issues(r) == handlers[r].outputSafety.issues

Warnings(r) == handlers[r].outputSafety.warnings

HasCritical(r) == \E i \in 1..Len(Issues(r)) : Issues(r)[i].severity = "critical"

HasBias(r) == \E i \in 1..Len(Issues(r)) : Issues(r)[i].type = "bias"

\* C1: a request whose processed model output got a critical issue from
\* validateOutputSafety is answered 200 with a body built from a fallback
\* template, and no model-derived result is in the result store (Spec follows
\* one request, so a model-derived entry could only be this request's).
C1_CriticalOutputIsReplaced ==
    \A r \in Requests :
        handlers[r].pc = "done" /\ HasCritical(r) =>
            /\ handlers[r].status = 200
            /\ handlers[r].body.content.origin \in TemplateKeys
            /\ \A e \in results : e.value.content.origin # "ai"

C1_Witness ==
    \E r \in Requests :
        Answered(r, 200) /\ HasCritical(r) /\ handlers[r].path = "blocked"

\* C2: a request that passed the schema and the input safety check is
\* answered 200, with model-derived or fallback content, when the primary
\* provider is unavailable, when orchestration returns success:false, when
\* the simulation stage throws and when the output is blocked; a 500 is sent
\* only when building the fallback in the catch block throws.
C2_FailuresAnswer200 ==
    \A r \in Requests :
        handlers[r].pc = "done" =>
            /\ handlers[r].path \notin {"invalid_input", "unsafe_input", "fallback_failed"} =>
                   /\ handlers[r].status = 200
                   /\ handlers[r].body.content.origin \in TemplateKeys \cup {"ai"}
            /\ handlers[r].status = 500 =>
                   /\ handlers[r].path = "fallback_failed"
                   /\ ensureDefaults(getFallbackResponse(EmptyContext)).threw

C2_Witness ==
    \E r \in Requests : Answered(r, 200) /\ handlers[r].threwIn = "simulation"

\* C3 as the specification states it: every 200 body validates against
\* apiResponseSchema.
C3_BodiesValidate ==
    \A r \in Requests : Answered(r, 200) => apiResponseSchema(handlers[r].body)

\* C4 as the specification states it: when validateOutputSafety records a
\* bias issue, the issue is critical, the verdict is safe = false with action
\* "block", and the content served comes from a fallback template.
C4_BiasBlocks ==
    \A r \in Requests :
        HasBias(r) =>
            /\ \A i \in 1..Len(Issues(r)) :
                   Issues(r)[i].type = "bias" => Issues(r)[i].severity = "critical"
            /\ ~handlers[r].outputSafety.safe
            /\ handlers[r].outputSafety.action = "block"
            /\ handlers[r].pc = "done" =>
                   handlers[r].body.content.origin \in TemplateKeys

\* C5 as the specification states it: when validateOutputSafety reports
\* warnings and no issue, the verdict is safe = true with action
\* "proceed_with_warnings", the model-derived content is returned, and its
\* additionalWarnings holds the message of every warning.
C5_WarningsPassThrough ==
    \A r \in Requests :
        handlers[r].pc = "done" /\ Len(Warnings(r)) > 0 /\ Len(Issues(r)) = 0 =>
            /\ handlers[r].outputSafety.safe
            /\ handlers[r].outputSafety.action = "proceed_with_warnings"
            /\ handlers[r].status = 200
            /\ handlers[r].body.content.origin = "ai"
            /\ \A i \in 1..Len(Warnings(r)) :
                   \E j \in 1..Len(handlers[r].body.content.additionalWarnings.messages) :
                       handlers[r].body.content.additionalWarnings.messages[j]
                           = Warnings(r)[i].message

\* the requests callAI has sent for a role, by attempt
CallsOf(r, role, attempt) ==
    {i \in 1..Len(handlers[r].calls) :
        handlers[r].calls[i].role = role /\ handlers[r].calls[i].attempt = attempt}

\* C6 as the specification states it: once the call to the configured
\* provider has failed, callAI has sent exactly one further request, to the
\* fallback provider (OpenAI, its client existing) and with the same prompts,
\* and callAI fails only after that request has failed too.
C6_FailedCallFallsBack ==
    \A r \in Requests, role \in {"primary", "secondary"} :
        \A i \in CallsOf(r, role, "provider") :
            /\ handlers[r].calls[i].outcome = "failed"
            /\ handlers[r].calls[i].provider # "openai"
            /\ ClientOf("openai")
            => /\ Cardinality(CallsOf(r, role, "fallback")) = 1
               /\ \A j \in CallsOf(r, role, "fallback") :
                      /\ handlers[r].calls[j].provider = "openai"
                      /\ handlers[r].calls[j].system = handlers[r].calls[i].system
                      /\ handlers[r].calls[j].user = handlers[r].calls[i].user
                      /\ handlers[r].callAI[role] = "failed" =>
                             handlers[r].calls[j].outcome = "failed"

\* C7: orchestrateAIGeneration never throws; a failed model call and a JSON
\* parse error make it return success:false; it returns success:true only
\* when the stripped text of the last answer parsed; and after a parse
\* failure it sends no further provider request.
C7_OrchestrationNeverThrows ==
    /\ [](\A r \in Requests :
            /\ handlers[r].orchestration.state # "threw"
            /\ (\/ handlers[r].orchestration.parseFailed
                \/ handlers[r].callAI.primary = "failed"
                \/ handlers[r].callAI.secondary = "failed") =>
                   /\ handlers[r].orchestration.state = "returned"
                   /\ ~handlers[r].orchestration.success
            /\ handlers[r].orchestration.success =>
                   /\ handlers[r].orchestration.state = "returned"
                   /\ JSONparse(handlers[r].orchestration.rawJson).ok)
    /\ [][\A r \in Requests :
            handlers[r].orchestration.parseFailed =>
                handlers'[r].calls = handlers[r].calls]_vars

C7_Witness ==
    \E r \in Requests :
        /\ handlers[r].orchestration.parseFailed
        /\ handlers[r].orchestration.state = "returned"
        /\ Len(handlers[r].calls) = 2

\* C8: the step that answers a request with 400 sends no provider request
\* and leaves the session store, the context cache and the result store as
\* they were.
C8_RejectedRequestLeavesStores ==
    [][\A r \in Requests :
          handlers[r].pc = "idle" /\ handlers'[r].pc = "done" /\ handlers'[r].status = 400 =>
              /\ sessions' = sessions
              /\ contexts' = contexts
              /\ results' = results
              /\ handlers'[r].calls = <<>>]_vars

C8_Witness ==
    \E r \in Requests :
        /\ Answered(r, 400)
        /\ handlers[r].path = "unsafe_input"
        /\ sessions # {} /\ contexts # {} /\ results # {}

\* C9 as the specification states it: in every 200 body feasibilityScores
\* has exactly 4 entries, with iconKey market, execution, capital, risk in
\* that order.
C9_ScoresInOrder ==
    \A r \in Requests :
        Answered(r, 200) =>
            /\ Len(handlers[r].body.content.scores.items) = 4
            /\ \A i \in 1..4 :
                   handlers[r].body.content.scores.items[i].iconKey = expectedOrder[i]

\* C10: every feasibility score value of every 200 body is an integer from
\* 0 to 100 (a number of an even count of half points, from 0 to 200).
C10_ScoresAreClampedIntegers ==
    \A r \in Requests :
        Answered(r, 200) =>
            \A i \in 1..Len(handlers[r].body.content.scores.items) :
                LET value == handlers[r].body.content.scores.items[i].value
                IN  value.t = "num" /\ value.v % 2 = 0 /\ value.v >= 0 /\ value.v <= 200

\* a model-derived body whose model-supplied score values were no numbers,
\* fractions or out of range
C10_Witness ==
    \E r \in Requests :
        /\ Answered(r, 200)
        /\ handlers[r].path = "generated"
        /\ handlers[r].body.content.origin = "ai"
        /\ handlers[r].orchestration.rawJson.core.kind = "object"
        /\ handlers[r].orchestration.rawJson.core.doc.scores.present
        /\ Len(handlers[r].orchestration.rawJson.core.doc.scores.items) = 4
        /\ handlers[r].orchestration.rawJson.core.doc.scores.items[1].value
               \in {NotANumber, [t |-> "num", v |-> 111], Points(150), Points(0 - 5)}


\* the budget of the context is one of config.budgetRanges
OwnBudget(context) ==
    \E i \in 1..Len(budgetRanges) :
        /\ context.economicContext.budget.tier = budgetRanges[i].tier
        /\ context.economicContext.budget.range.max = Num(budgetRanges[i].max)

\* C11: for every budget tier and every revenue estimate the model supplies, or
\* none, calculateRevenueSimulation returns a year1RevenueMax that is a number
\* and at most 5 * budget.max.
C11_RevenueMaxCapped ==
    (evaluated.op = "calculateRevenueSimulation" /\ OwnBudget(evaluated.input.context))
    => /\ ~evaluated.result.year1RevenueMax.nan
       /\ evaluated.result.year1RevenueMax.v
              <= 5 * evaluated.input.context.economicContext.budget.range.max.v


\* decisionSupport.revenueSimulation of the body that answered request r
ServedRevenue(r) == handlers[r].body.content.revenueSimulation

\* C12: in every 200 body the revenue simulation is there, its four amounts
\* are numbers that are not negative, the minimum of revenue and of profit is
\* at most the maximum, and it carries a disclaimer.
C12_RevenueSimulationSound ==
    \A r \in Requests :
        Answered(r, 200) =>
            LET rev == ServedRevenue(r)
            IN  /\ rev.present /\ rev.disclaimer
                /\ ~rev.year1RevenueMin.nan /\ ~rev.year1RevenueMax.nan
                /\ ~rev.year1ProfitMin.nan /\ ~rev.year1ProfitMax.nan
                /\ rev.year1RevenueMin.v >= 0 /\ rev.year1ProfitMin.v >= 0
                /\ rev.year1RevenueMin.v <= rev.year1RevenueMax.v
                /\ rev.year1ProfitMin.v <= rev.year1ProfitMax.v


\* C13: in every 200 body, ideas is an array of at least 3 and at most 5
\* entries.
C13_IdeasCount ==
    \A r \in Requests :
        Answered(r, 200) =>
            /\ handlers[r].body.content.ideas.kind = "array"
            /\ handlers[r].body.content.ideas.n >= 3
            /\ handlers[r].body.content.ideas.n <= 5


\* the title of the template of fallbackResponses in the given row and column
TemplateTitle(row, column) ==
    IF row = "micro" /\ column = "urban" THEN <<"L","o","c","a","l"," ","S","e","r","v","i","c","e"," ","M","a","r","k","e","t","p","l","a","c","e">>
    ELSE IF row = "micro" /\ column = "rural" THEN <<"F","a","r","m","-","t","o","-","C","o","m","m","u","n","i","t","y"," ","P","r","o","d","u","c","t","s">>
    ELSE IF row = "small" /\ column = "urban" THEN <<"S","p","e","c","i","a","l","i","z","e","d"," ","L","o","c","a","l"," ","S","e","r","v","i","c","e","s">>
    ELSE <<"A","g","r","i","-","T","o","u","r","i","s","m"," ","E","x","p","e","r","i","e","n","c","e">>

\* the tier and the location type of a context, "" when it has none
TierOf(context) ==
    IF context = EmptyContext THEN "" ELSE context.economicContext.budget.tier

LocationTypeOf(context) ==
    IF context = EmptyContext THEN <<>> ELSE context.economicContext.location.type

\* C14: getFallbackResponse returns, for every context, the template of the
\* micro row iff the tier is micro (the small row otherwise) and of the rural
\* column iff the location type is rural or remote (the urban column
\* otherwise), unchanged but for a _meta tag with isFallback true and a reason;
\* budget "under-1k" with location "rural" gives micro/rural.
C14_FallbackSelection ==
    evaluated.op = "getFallbackResponse" =>
        LET context == evaluated.input.context
            row == IF TierOf(context) = "micro" THEN "micro" ELSE "small"
            column == IF LocationTypeOf(context) \in { <<"r","u","r","a","l">>, <<"r","e","m","o","t","e">> }
                      THEN "rural" ELSE "urban"
            result == evaluated.result
        IN  /\ result.kind = "object"
            /\ result.businessIdea.title = TemplateTitle(row, column)
            /\ [result EXCEPT !.meta = NoMeta] = fallbackResponses(row, column)
            /\ result.meta.present /\ result.meta.isFallback
            /\ result.meta.fallbackReason # <<>>
            /\ (evaluated.input.budget = <<"u","n","d","e","r","-","1","k">> /\ evaluated.input.locationType = <<"r","u","r","a","l">>)
                   => result.origin = "micro.rural"

C14_Witness ==
    /\ evaluated.op = "getFallbackResponse"
    /\ evaluated.input.budget = <<"u","n","d","e","r","-","1","k">>
    /\ evaluated.input.locationType = <<"r","u","r","a","l">>
    /\ evaluated.result.origin = "micro.rural"
    /\ evaluated.result.meta.isFallback


\* the key of the template a context selects
SelectedTemplate(context) ==
    (IF TierOf(context) = "micro" THEN "micro" ELSE "small")
    \o "."
    \o (IF LocationTypeOf(context) \in { <<"r","u","r","a","l">>, <<"r","e","m","o","t","e">> } THEN "rural" ELSE "urban")

\* C15: a 200 body with fallback content, sent after the context of the
\* request was built, carries the template that context selects.
C15_FallbackMatchesContext ==
    \A r \in Requests :
        ( /\ Answered(r, 200)
          /\ handlers[r].context # EmptyContext
          /\ handlers[r].body.content.origin \in TemplateKeys )
        => handlers[r].body.content.origin = SelectedTemplate(handlers[r].context)


\* C16: a 200 body with fallback content carries no _meta tag and has
\* metadata.confidence "low".
C16_FallbackTagStaysInside ==
    \A r \in Requests :
        (Answered(r, 200) /\ handlers[r].body.content.origin \in TemplateKeys)
        => /\ ~handlers[r].body.content.meta.present
           /\ ~handlers[r].body.content.meta.isFallback
           /\ handlers[r].body.metadata.confidence = "low"

C16_Witness ==
    \E r \in Requests :
        /\ Answered(r, 200)
        /\ handlers[r].path = "primary_unavailable"
        /\ handlers[r].body.content.origin = "micro.urban"
        /\ handlers[r].body.metadata.confidence = "low"


\* C17: a request that awaits a provider is answered in the end, whether or
\* not the provider ever answers.
C17_EveryRequestAnswered ==
    \A r \in Requests : (handlers[r].pc = "calling") ~> (handlers[r].pc = "done")


\* what get of a store returns for the key of one of its entries: nothing, with
\* the entry removed, when the entry has expired; the entry's value, the store
\* left as it is, otherwise
GetHonoursExpiry(map) ==
    \A e \in map :
        LET got == StoreGet(map, e.key)
        IN  IF e.expiresAt < now
            THEN ~got.found /\ got.value = Null /\ ~MapHas(got.map, e.key)
            ELSE got.found /\ got.value = e.value /\ got.map = map

\* the step is the answer of a GET route for key in the store map (map2 after it)
Answers(route, map, map2) ==
    /\ retrieved' # retrieved
    /\ retrieved'.route = route
    /\ LET key == retrieved'.key
           live == MapHas(map, key) /\ MapGet(map, key).expiresAt >= now
       IN  /\ retrieved'.status = IF live THEN 200 ELSE 404
           /\ live => retrieved'.body = MapGet(map, key).value /\ map2 = map
           /\ ~live => retrieved'.body = Null /\ ~MapHas(map2, key)

\* C18: in every state reached by requests, reads and clock advances, get of
\* the session store, the context cache and the result store returns no entry
\* whose expiry time is earlier than the current time: it returns null and
\* removes the entry; and GET /api/session/:id and GET /api/result/:id answer
\* 404 for an expired or absent entry, 200 with the entry otherwise.
C18_ExpiredEntriesAreGone ==
    /\ [](GetHonoursExpiry(sessions) /\ GetHonoursExpiry(contexts)
                                      /\ GetHonoursExpiry(results))
    /\ [][ /\ (retrieved' # retrieved /\ retrieved'.route = "session")
               => Answers("session", sessions, sessions')
           /\ (retrieved' # retrieved /\ retrieved'.route = "result")
               => Answers("result", results, results') ]_vars

\* an expired session was asked for and answered 404, the entry gone
C18_Witness ==
    /\ retrieved.route = "session"
    /\ retrieved.status = 404
    /\ retrieved.key = <<"client", 1>>
    /\ now > cacheExpiry
    /\ \E r \in Requests : handlers[r].sessionId = <<"client", 1>> /\ handlers[r].pc # "idle"
    /\ ~MapHas(sessions, <<"client", 1>>)


\* C19: two requests answered 200 carry different resultId values, and a
\* request answered with generated content has sent its own provider request
\* and had its own orchestration return, also when its context came from the
\* cache.
C19_IndependentResults ==
    \A r1, r2 \in Requests :
        (r1 # r2 /\ Answered(r1, 200) /\ Answered(r2, 200))
        => /\ handlers[r1].body.resultId # handlers[r2].body.resultId
           /\ handlers[r2].path = "generated"
                 => /\ Len(handlers[r2].calls) >= 1
                    /\ handlers[r2].orchestration.state = "returned"
                    /\ handlers[r2].orchestration.success

\* two requests with the same input, the second one made after the clock
\* advanced: the one cache entry is still the first request's (the second hit
\* the cache), and both were answered with generated content
C19_Witness ==
    /\ now = TickMs
    /\ \A r \in Requests :
           /\ Answered(r, 200) /\ handlers[r].path = "generated"
           /\ handlers[r].input = BaseBody
    /\ \A e \in contexts : e.expiresAt = cacheExpiry
    /\ Cardinality(contexts) = 1
    /\ \E e \in sessions : e.expiresAt = TickMs + cacheExpiry
    /\ handlers[1].body.resultId # handlers[2].body.resultId


\* the budget text matches neither a key of config.budgetRanges nor a keyword
\* of the fuzzy map
UnmatchedBudget(value) ==
    LET raw == ToLowerCase(normalizeText(value, 60))
    IN  ~HasOwn(budgetRanges, raw) /\ ~HasFuzzy(budgetFuzzyMap, raw)

\* C20: for every budget input, the budget validateAndNormalize returns has
\* min <= max and a tier; an input matching neither a bucket key nor a fuzzy
\* keyword has assumed = true, "budget" among _meta.assumptions and
\* hasAssumedValues = true.
C20_BudgetNormalized ==
    evaluated.op = "validateAndNormalize"
    => LET budget == evaluated.result.budget
           meta == evaluated.result.meta
       IN  /\ budget.own
           /\ budget.min <= budget.max
           /\ budget.tier \in { budgetRanges[i].tier : i \in 1..Len(budgetRanges) }
           /\ UnmatchedBudget(evaluated.input.budget)
                 => /\ budget.assumed
                    /\ meta.hasAssumedValues
                    /\ \E i \in 1..Len(meta.assumptions) : meta.assumptions[i] = "budget"


\* C21: a budget input matching neither a bucket key nor a fuzzy keyword
\* resolves to the smallest bucket, under-1k of tier micro.
C21_UnmatchedBudgetIsSmallest ==
    (evaluated.op = "validateAndNormalize" /\ UnmatchedBudget(evaluated.input.budget))
    => /\ evaluated.result.budget.key = <<"u","n","d","e","r","-","1","k">>
       /\ evaluated.result.budget.tier = "micro"


\* the text is at most cap characters, its only whitespace is the space, and
\* no two spaces are adjacent
CollapsedWithin(text, cap) ==
    /\ Len(text) <= cap
    /\ \A i \in 1..Len(text) :
          IsWhitespace(text[i]) => /\ text[i] = " "
                                   /\ i > 1 => ~IsWhitespace(text[i - 1])

\* C22: for every body the schema accepts, every text field of the normalized
\* profile is whitespace-collapsed and within its cap: skills 400, interests
\* 300, targetAudience 200, goals 300, localData 400, region 80.
C22_TextFieldsCapped ==
    (evaluated.op = "validateAndNormalize" /\ generateInputSchema(evaluated.input))
    => LET profile == evaluated.result
       IN  /\ CollapsedWithin(profile.skills, 400)
           /\ CollapsedWithin(profile.interests, 300)
           /\ CollapsedWithin(profile.targetAudience, 200)
           /\ CollapsedWithin(profile.goals, 300)
           /\ CollapsedWithin(profile.localData, 400)
           /\ CollapsedWithin(profile.region, 80)


\* C23: no 200 body of a request whose budget resolves to the micro tier has
\* decisionSupport.budgetSuitability "excellent".
C23_MicroNeverExcellent ==
    \A r \in Requests :
        (Answered(r, 200) /\ normalizeBudget(handlers[r].input.budget).tier = "micro")
        => handlers[r].body.content.budgetSuitability # "excellent"


\* the steps of an orchestration trace, in the order of the code
TraceSteps ==
    << "primary_model_start", "primary_model_complete",
       "secondary_model_start", "secondary_model_complete" >>

\* the trace of request r without its error entries
StepsOf(r) ==
    LET notError(step) == step # "error"
    IN  SelectSeq(handlers[r].orchestrationLog, notError)

\* C24: the secondary model is called only after the primary call returned,
\* never after it failed and never with skipSecondary; the trace lists the
\* four steps in order, each complete after its start; a returned
\* orchestration has an error entry, as its last entry, exactly when success
\* is false.
C24_OrchestrationSequential ==
    \A r \in Requests :
        LET h == handlers[r]
            log == h.orchestrationLog
        IN  /\ \A i \in 1..Len(h.calls) :
                  h.calls[i].role = "secondary"
                  => /\ ~skipSecondary
                     /\ h.callAI.primary = "returned"
                     /\ \E j \in 1..(i - 1) : /\ h.calls[j].role = "primary"
                                              /\ h.calls[j].outcome = "returned"
            /\ skipSecondary => \A i \in 1..Len(log) : log[i] # "secondary_model_start"
            /\ Len(StepsOf(r)) <= Len(TraceSteps)
            /\ \A i \in 1..Len(StepsOf(r)) : StepsOf(r)[i] = TraceSteps[i]
            /\ \A i \in 1..Len(log) : log[i] = "error" => i = Len(log)
            /\ h.orchestration.state = "returned"
                 => /\ (log # <<>> /\ log[Len(log)] = "error") <=> ~h.orchestration.success
                    /\ h.orchestration.success
                         => StepsOf(r) = IF skipSecondary THEN SubSeq(TraceSteps, 1, 2)
                                         ELSE TraceSteps
            /\ h.orchestration.state # "returned" => \A i \in 1..Len(log) : log[i] # "error"

\* both models were called and answered, and elsewhere an orchestration ended
\* in its catch block
C24_Witness ==
    /\ handlers[1].orchestration.state = "returned" /\ handlers[1].orchestration.success
    /\ handlers[1].orchestrationLog = TraceSteps
    /\ Len(handlers[1].calls) = 2
    /\ handlers[2].orchestration.state = "returned" /\ ~handlers[2].orchestration.success
    /\ handlers[2].orchestrationLog = <<"primary_model_start", "error">>


\* the text has a match of /<[^>]*>/: a "<" with a ">" after it
HasTag(text) ==
    \E p \in 1..Len(text) : text[p] = "<" /\ \E q \in (p + 1)..Len(text) : text[q] = ">"

\* the text has a match of /javascript:/i
HasJsProtocol(text) == Includes(ToLowerCase(text), <<"j","a","v","a","s","c","r","i","p","t",":">>)

\* the text has a match of /on\w+=/i
HasEventHandler(text) ==
    \E p \in 1..Len(text), e \in 1..Len(text) :
        /\ e >= p + 3 /\ text[e] = "="
        /\ LowerChar(text[p]) = "o" /\ LowerChar(text[p + 1]) = "n"
        /\ \A k \in (p + 2)..(e - 1) : IsWordChar(text[k])

CleanText(text) == ~HasTag(text) /\ ~HasJsProtocol(text) /\ ~HasEventHandler(text)

\* C25: after formatResponse no string of the response has an HTML tag, the
\* text "javascript:" in any case, or an on<word>= attribute, also for
\* strings in which these patterns are nested or overlap.
C25_ResponseStringsClean ==
    (evaluated.op = "formatResponse" /\ ~evaluated.result.threw)
    => LET content == evaluated.result.response.content
       IN  /\ CleanText(content.businessIdea.title)
           /\ CleanText(content.pitchSummary)
           /\ \A i \in 1..Len(content.additionalWarnings.messages) :
                  CleanText(content.additionalWarnings.messages[i])


\* C26: the context a request runs with, taken from the cache on a hit, is
\* the context buildContext makes of the request's own normalized input (the
\* context carries no build time in this model).
C26_ContextIsOwn ==
    \A r \in Requests :
        handlers[r].context # EmptyContext
        => handlers[r].context = buildContext(validateAndNormalize(handlers[r].input))


\* C27: while no stored result can have expired (the clock has not passed the
\* expiry of a result stored at time 0), the resultId of every 200 body of
\* /generate, generated or fallback, is found by the result store's get and
\* the stored result is that body.
C27_ResultRetrievable ==
    \A r \in Requests :
        (Answered(r, 200) /\ now <= cacheExpiry)
        => /\ StoreGet(results, handlers[r].body.resultId).found
           /\ StoreGet(results, handlers[r].body.resultId).value = handlers[r].body

\* the part that holds: the resultId of a generated 200 body is retrievable
C27_GeneratedRetrievable ==
    \A r \in Requests :
        (Answered(r, 200) /\ now <= cacheExpiry
                           /\ handlers[r].body.content.origin \notin TemplateKeys)
        => /\ StoreGet(results, handlers[r].body.resultId).found
           /\ StoreGet(results, handlers[r].body.resultId).value = handlers[r].body


\* C28: a budget that is a keyword of the budget fuzzy map resolves to the
\* bucket the map gives for that keyword, a location type that is a keyword
\* of the location fuzzy map to the location the map gives for it, each with
\* normalized = true and assumed = false; a budget or location type equal to
\* a key of its table resolves to that key with neither flag.
C28_KeywordResolvesToItsCategory ==
    evaluated.op = "validateAndNormalize"
    => LET budget == evaluated.result.budget
           location == evaluated.result.location
       IN  /\ \A i \in 1..Len(budgetFuzzyMap) :
                 evaluated.input.budget = budgetFuzzyMap[i].keyword
                 => /\ budget.key = budgetFuzzyMap[i].key
                    /\ budget.normalized /\ ~budget.assumed
           /\ \A i \in 1..Len(locationFuzzyMap) :
                 evaluated.input.locationType = locationFuzzyMap[i].keyword
                 => /\ location.type = locationFuzzyMap[i].key
                    /\ location.normalized /\ ~location.assumed
           /\ HasOwn(budgetRanges, evaluated.input.budget)
                 => /\ budget.key = evaluated.input.budget
                    /\ ~budget.normalized /\ ~budget.assumed
           /\ HasOwn(locationContexts, evaluated.input.locationType)
                 => /\ location.type = evaluated.input.locationType
                    /\ ~location.normalized /\ ~location.assumed

\* the part that holds: every keyword but "small city", and every exact key
C28_KeywordResolvesButSmallCity ==
    evaluated.op = "validateAndNormalize"
    => LET budget == evaluated.result.budget
           location == evaluated.result.location
       IN  /\ \A i \in 1..Len(budgetFuzzyMap) :
                 evaluated.input.budget = budgetFuzzyMap[i].keyword
                 => /\ budget.key = budgetFuzzyMap[i].key
                    /\ budget.normalized /\ ~budget.assumed
           /\ \A i \in 1..Len(locationFuzzyMap) :
                 ( /\ evaluated.input.locationType = locationFuzzyMap[i].keyword
                   /\ locationFuzzyMap[i].keyword # <<"s","m","a","l","l"," ","c","i","t","y">> )
                 => /\ location.type = locationFuzzyMap[i].key
                    /\ location.normalized /\ ~location.assumed
           /\ HasOwn(budgetRanges, evaluated.input.budget)
                 => /\ budget.key = evaluated.input.budget
                    /\ ~budget.normalized /\ ~budget.assumed
           /\ HasOwn(locationContexts, evaluated.input.locationType)
                 => /\ location.type = evaluated.input.locationType
                    /\ ~location.normalized /\ ~location.assumed

\* "small city" alone resolves to urban
C28_SmallCityIsUrban ==
    (evaluated.op = "validateAndNormalize"
        /\ evaluated.input.locationType = <<"s","m","a","l","l"," ","c","i","t","y">>)
    => evaluated.result.location.type = <<"u","r","b","a","n">>


\* "small city" alone has been normalised
C28_SmallCityNormalised ==
    /\ evaluated.op = "validateAndNormalize"
    /\ evaluated.input.locationType = <<"s","m","a","l","l"," ","c","i","t","y">>
    /\ evaluated.result.location.normalized


\* the secondary structuring model was called for request r
SecondaryCalled(r) ==
    \E i \in 1..Len(handlers[r].calls) : handlers[r].calls[i].role = "secondary"

\* C29: in every 200 body, metadata.modelSecondary is other than "none" only
\* if the secondary model was called for that request, and is "none" when
\* the secondary call is skipped or the content is fallback.
C29_SecondaryNamedOnlyIfCalled ==
    \A r \in Requests :
        Answered(r, 200)
        => LET modelSecondary == handlers[r].body.metadata.modelSecondary
           IN  /\ modelSecondary # "none" => SecondaryCalled(r)
               /\ skipSecondary => modelSecondary = "none"
               /\ handlers[r].body.content.origin \in TemplateKeys
                     => modelSecondary = "none"

\* the part that holds: fallback content has modelSecondary "none", and
\* with the secondary provider available a named model was called
C29_FallbackHasNoSecondary ==
    \A r \in Requests :
        Answered(r, 200)
        => LET modelSecondary == handlers[r].body.metadata.modelSecondary
           IN  /\ (modelSecondary # "none" /\ ~skipSecondary) => SecondaryCalled(r)
               /\ handlers[r].body.content.origin \in TemplateKeys
                     => modelSecondary = "none"

\* generated content without a secondary call names the secondary model
C29_SkippedSecondaryIsNamed ==
    \A r \in Requests :
        (Answered(r, 200) /\ skipSecondary
            /\ handlers[r].body.content.origin \notin TemplateKeys)
        => /\ ~SecondaryCalled(r)
           /\ handlers[r].body.metadata.modelSecondary = configAi.secondary.model


\* the classifications of assessEaseOfExecution, from hardest to easiest
EaseRank(ease) ==
    IF ease = "difficult" THEN 0
    ELSE IF ease = "challenging" THEN 1
    ELSE IF ease = "moderate" THEN 2
    ELSE 3

\* C30: for one context and two execution scores of 0..100, the lower score
\* never yields an easier classification than the higher one, the score 0
\* included.
C30_EaseMonotone ==
    evaluated.op = "assessEaseOfExecution"
    => EaseRank(evaluated.result.lower) <= EaseRank(evaluated.result.higher)

\* the part that holds: monotone over the scores 1..100
C30_EaseMonotoneAboveZero ==
    (evaluated.op = "assessEaseOfExecution" /\ evaluated.input.lower > 0)
    => EaseRank(evaluated.result.lower) <= EaseRank(evaluated.result.higher)

\* an execution score of 0 is classified like one of 50
C30_ZeroIsFifty ==
    (evaluated.op = "assessEaseOfExecution" /\ evaluated.input.higher = 50)
    => (evaluated.input.lower = 0 => evaluated.result.lower = evaluated.result.higher)

\* the four classifications are reached without the score 0
C30_AllClassesReached ==
    /\ evaluated.op = "assessEaseOfExecution"
    /\ evaluated.input.lower > 0
    /\ evaluated.result.lower = "difficult"
    /\ evaluated.result.higher = "easy"

=============================================================================
